---------------------------- MODULE Spec2Model ----------------------------
(***************************************************************************)
(* potion-kit: conversation context compaction (summary cache planner,     *)
(* chunk splitter, rolling summarizer, message assembler), the history     *)
(* store and the clear command.                                            *)
(*                                                                         *)
(* Texts.  A JavaScript string is modelled by a record                     *)
(*   [pre |-> n, body |-> b]                                               *)
(* standing for n copies of the label "Previous condensed summary:"        *)
(* followed by the text named b.  The body "" is the empty string, " " is  *)
(* a whitespace-only string, every other body names a non-blank text whose *)
(* length BodyChars gives.  Indices are the 0-based indices of the source; *)
(* a sequence s of the model holds element i of the source at s[i + 1].    *)
(***************************************************************************)
EXTENDS Integers, Sequences, FiniteSets, TLC

VARIABLES
    historyFile,      \* .potion-kit/chat-history.json
    summaryFile,      \* .potion-kit/chat-summary.json
    eventsFile,       \* .potion-kit/chat-events.json
    maxHistory,       \* config.maxHistoryMessages ?? DEFAULT_MAX_HISTORY_MESSAGES
    pc,               \* where the running command stands
    history,          \* const history = readHistory(cwd)
    userMessage,      \* the new user input of the turn
    cachedIn,         \* the SummaryState handed to planSummaryUpdate
    plan,             \* const plan = planSummaryUpdate(...)
    chunks,           \* const chunks = splitSummaryChunks(unsummarizedMiddle)
    rollingSummary,   \* let rollingSummary
    processedChunks,  \* let processedChunks
    used,             \* usedPrimary / usedRetry / usedFallback
    summaryResult,    \* what getCachedOrFreshSummary returned
    messages,         \* const messages = buildMessages(...)
    requests,         \* condensation requests issued during the turn
    outcomes,         \* what each iteration of the chunk loop ended with
    summaryWrites,    \* writeSummaryState calls made during the turn
    summaryAtStart,   \* the summary record as it was when the turn began
    pending,          \* history indices of the chunks this turn left unprocessed
    prevPending,      \* the same of the turn before, {} after a clear
    turns,            \* turns begun so far
    turnResult,       \* const result = await sendTurnAndPersist(...), with the
                      \* reply and trace chat.send left; Null before it returns
    chunkLimits,      \* the maxMessages and maxChars of splitSummaryChunks
    traceState,       \* const traceState = { current: ... } of createTracedChat
    toolEvents        \* const toolEvents of the chat.send call in flight

vars == <<historyFile, summaryFile, eventsFile, maxHistory, pc, history,
          userMessage, cachedIn, plan, chunks, rollingSummary, processedChunks,
          used, summaryResult, messages, requests, outcomes, summaryWrites,
          summaryAtStart, pending, prevPending, turns, turnResult,
          chunkLimits, traceState, toolEvents>>

-----------------------------------------------------------------------------
(* Bounds of the model.                                                    *)

MaxN == 2            \* recency window sizes 1..MaxN
MaxLen == 4          \* longest history enumerated for the pure functions
MaxTurns == 2        \* turns begun in one behaviour of the session model
MaxBlankRun == 10    \* longest run of whitespace-only messages in a stored history
MaxAppends == 5      \* events appended in one behaviour of the ledger model
MaxSteps == 2        \* tool events recorded during one chat.send call

-----------------------------------------------------------------------------
(* Program constants.                                                      *)

MIDDLE_START_INDEX == 1
MAX_INCREMENTAL_SUMMARY_UPDATES == 8
SUMMARY_CHUNK_MAX_MESSAGES == 10
SUMMARY_CHUNK_MAX_CHARS == 3200
MESSAGE_OVERHEAD_CHARS == 16
MIN_SUMMARY_CHARS == 80
FALLBACK_WINDOW == 10
PREFIX_CHARS == 28

-----------------------------------------------------------------------------
(* Texts.                                                                  *)

Null == [null |-> TRUE]

T(b) == [pre |-> 0, body |-> b]

Empty == T("")

\* content.length of the text a body names
BodyChars(b) ==
    CASE b = "" -> 0
      [] b = " " -> 1
      [] b = "tiny" -> MIN_SUMMARY_CHARS - 1
      [] b = "BIG" -> SUMMARY_CHUNK_MAX_CHARS
      [] OTHER -> MIN_SUMMARY_CHARS

Chars(t) == t.pre * PREFIX_CHARS + BodyChars(t.body)

\* the text a body names, without its leading and trailing whitespace
TrimmedBody(b) ==
    CASE b = " " -> ""
      [] b = "  Done! Updated the page.  " -> "Done! Updated the page."
      [] OTHER -> b

\* String.prototype.trim: a whitespace-only string becomes the empty string
Trim(t) == IF t.pre = 0 THEN T(TrimmedBody(t.body)) ELSE t

\* a JavaScript string used as a condition: null and "" are falsy
Truthy(t) == t # Null /\ t # Empty

Msg(r, c) == [role |-> r, content |-> c]

\* mutant: the element at the end index is taken too
SliceThroughEnd(s, from, to) ==
    SubSeq(s, from + 1, IF from < to /\ to < Len(s) THEN to + 1
                        ELSE IF to < Len(s) THEN to ELSE Len(s))

\* Array.prototype.slice(from, to) with 0 <= from
Slice(s, from, to) == SubSeq(s, from + 1, IF to < Len(s) THEN to ELSE Len(s))

\* Array.prototype.slice(-n) with n >= 1
SliceLast(s, n) == IF n >= Len(s) THEN s ELSE SubSeq(s, Len(s) - n + 1, Len(s))

-----------------------------------------------------------------------------
(* ai/summarize.ts                                                         *)

\* mutant: the label is left where it is
stripPreviousSummaryPrefixKeepsLabel(text) == text

\* text.replace(/^(?:Previous condensed summary:\s*)+/im, "").trim()
stripPreviousSummaryPrefix(text) == Trim([pre |-> 0, body |-> text.body])

-----------------------------------------------------------------------------
(* commands/summary-cache.ts                                               *)

\* mutant: the anchor fingerprint is not compared
isValidSummaryStateAnyAnchor(state, firstUserMessage) ==
    /\ state # Null
    /\ Chars(state.summary) > 0

isValidSummaryState(state, firstUserMessage) ==
    /\ state # Null
    /\ Chars(state.summary) > 0
    /\ state.firstUserMessage = firstUserMessage

NoWorkPlan(firstUserMessage, middleEnd) ==
    [firstUserMessage |-> firstUserMessage,
     middleEnd |-> middleEnd,
     reuseCachedSummary |-> Null,
     summarizeFrom |-> middleEnd,
     seedSummary |-> Null,
     nextIncrementalUpdates |-> 0]

FirstUserMessage(h) ==
    IF Len(h) > 0 /\ h[1].role = "user" THEN h[1].content ELSE Empty

\* mutant: coverage up to middleEnd itself is rejected
ValidCachedStrict(h, n, cached) ==
    /\ isValidSummaryState(cached, FirstUserMessage(h))
    /\ cached.summarizedUntil >= MIDDLE_START_INDEX
    /\ cached.summarizedUntil < Len(h) - n

ValidCached(h, n, cached) ==
    /\ isValidSummaryState(cached, FirstUserMessage(h))
    /\ cached.summarizedUntil >= MIDDLE_START_INDEX
    /\ cached.summarizedUntil <= Len(h) - n

\* mutant: the ceiling is reached one extension early
CanIncrementalExtendEarlyCeiling(h, n, cached) ==
    /\ ValidCached(h, n, cached)
    /\ cached.summarizedUntil < Len(h) - n
    /\ cached.incrementalUpdates < MAX_INCREMENTAL_SUMMARY_UPDATES - 1

\* mutant: the ceiling is reached one extension late
CanIncrementalExtendLateCeiling(h, n, cached) ==
    /\ ValidCached(h, n, cached)
    /\ cached.summarizedUntil < Len(h) - n
    /\ cached.incrementalUpdates <= MAX_INCREMENTAL_SUMMARY_UPDATES

\* mutant: there is no ceiling
CanIncrementalExtendNoCeiling(h, n, cached) ==
    /\ ValidCached(h, n, cached)
    /\ cached.summarizedUntil < Len(h) - n

CanIncrementalExtend(h, n, cached) ==
    /\ ValidCached(h, n, cached)
    /\ cached.summarizedUntil < Len(h) - n
    /\ cached.incrementalUpdates < MAX_INCREMENTAL_SUMMARY_UPDATES

planSummaryUpdate(h, n, cached) ==
    LET middleEnd == Len(h) - n
        firstUserMessage == FirstUserMessage(h)
    IN  IF middleEnd <= MIDDLE_START_INDEX
        THEN NoWorkPlan(firstUserMessage, middleEnd)
        ELSE IF ValidCached(h, n, cached) /\ cached.summarizedUntil = middleEnd
        THEN [firstUserMessage |-> firstUserMessage,
              middleEnd |-> middleEnd,
              reuseCachedSummary |-> cached.summary,
              summarizeFrom |-> middleEnd,
              seedSummary |-> cached.summary,
              nextIncrementalUpdates |-> cached.incrementalUpdates]
        ELSE LET ext == CanIncrementalExtend(h, n, cached)
             IN  [firstUserMessage |-> firstUserMessage,
                  middleEnd |-> middleEnd,
                  reuseCachedSummary |-> Null,
                  summarizeFrom |-> IF ext THEN cached.summarizedUntil
                                    ELSE MIDDLE_START_INDEX,
                  seedSummary |-> IF ext THEN cached.summary ELSE Null,
                  nextIncrementalUpdates |->
                      IF ext THEN cached.incrementalUpdates + 1 ELSE 0]

estimateMessageChars(message) == Chars(message.content) + MESSAGE_OVERHEAD_CHARS

\* mutant: the message that meets a full chunk is lost
RECURSIVE SplitLoopDropsBoundary(_, _, _, _, _, _, _)
SplitLoopDropsBoundary(msgs, k, done, current, currentChars, messageLimit, charLimit) ==
    IF k > Len(msgs)
    THEN IF Len(current) > 0 THEN Append(done, current) ELSE done
    ELSE LET message == msgs[k]
             messageChars == estimateMessageChars(message)
             hitMessageLimit == Len(current) >= messageLimit
             hitCharLimit == Len(current) > 0 /\ currentChars + messageChars > charLimit
         IN  IF hitMessageLimit \/ hitCharLimit
             THEN SplitLoopDropsBoundary(msgs, k + 1, Append(done, current), <<>>,
                                         0, messageLimit, charLimit)
             ELSE SplitLoopDropsBoundary(msgs, k + 1, done, Append(current, message),
                                         currentChars + messageChars, messageLimit,
                                         charLimit)

\* mutant: the character limit is tested on the new message alone
RECURSIVE SplitLoopNewMessageOnly(_, _, _, _, _, _, _)
SplitLoopNewMessageOnly(msgs, k, done, current, currentChars, messageLimit, charLimit) ==
    IF k > Len(msgs)
    THEN IF Len(current) > 0 THEN Append(done, current) ELSE done
    ELSE LET message == msgs[k]
             messageChars == estimateMessageChars(message)
             hitMessageLimit == Len(current) >= messageLimit
             hitCharLimit == Len(current) > 0 /\ messageChars > charLimit
         IN  IF hitMessageLimit \/ hitCharLimit
             THEN SplitLoopNewMessageOnly(msgs, k + 1, Append(done, current),
                                          <<message>>, messageChars, messageLimit,
                                          charLimit)
             ELSE SplitLoopNewMessageOnly(msgs, k + 1, done, Append(current, message),
                                          currentChars + messageChars, messageLimit,
                                          charLimit)

\* the for loop of splitSummaryChunks from message k (1-based) on
RECURSIVE SplitLoop(_, _, _, _, _, _, _)
SplitLoop(msgs, k, done, current, currentChars, messageLimit, charLimit) ==
    IF k > Len(msgs)
    THEN IF Len(current) > 0 THEN Append(done, current) ELSE done
    ELSE LET message == msgs[k]
             messageChars == estimateMessageChars(message)
             hitMessageLimit == Len(current) >= messageLimit
             hitCharLimit == Len(current) > 0 /\ currentChars + messageChars > charLimit
         IN  IF hitMessageLimit \/ hitCharLimit
             THEN SplitLoop(msgs, k + 1, Append(done, current), <<message>>,
                            messageChars, messageLimit, charLimit)
             ELSE SplitLoop(msgs, k + 1, done, Append(current, message),
                            currentChars + messageChars, messageLimit, charLimit)

\* A JavaScript number given as a limit: Num(n) is the integer n, Frac(n) a
\* number strictly between n and n + 1, NotFinite is NaN or an infinity.
Num(n) == [finite |-> TRUE, floor |-> n, frac |-> FALSE]
Frac(n) == [finite |-> TRUE, floor |-> n, frac |-> TRUE]
NotFinite == [finite |-> FALSE, floor |-> 0, frac |-> FALSE]

\* x > 0
Positive(x) == x.floor > 0 \/ (x.floor = 0 /\ x.frac)

\* Number.isFinite(x) && x > 0 ? Math.floor(x) : 1
EffectiveLimit(x) == IF x.finite /\ Positive(x) THEN x.floor ELSE 1

splitSummaryChunks(msgs, maxMessages, maxChars) ==
    LET messageLimit == EffectiveLimit(maxMessages)
        charLimit == EffectiveLimit(maxChars)
    IN  SplitLoop(msgs, 1, <<>>, <<>>, 0, messageLimit, charLimit)

-----------------------------------------------------------------------------
(* commands/chat-messages.ts                                               *)

IsUser(m) == m.role = "user"
IsAssistant(m) == m.role # "user"

\* mutant: the first assistant message of the window is the one kept
prioritizeUserRequestsFirstAssistant(msgs) ==
    LET users == SelectSeq(msgs, IsUser)
        assistants == SelectSeq(msgs, IsAssistant)
    IN  IF Len(assistants) > 0
        THEN Append(users, assistants[1])
        ELSE users

\* mutant: no assistant message of the window is kept
prioritizeUserRequestsUsersOnly(msgs) == SelectSeq(msgs, IsUser)

prioritizeUserRequests(msgs) ==
    LET users == SelectSeq(msgs, IsUser)
        assistants == SelectSeq(msgs, IsAssistant)
    IN  IF Len(assistants) > 0
        THEN Append(users, assistants[Len(assistants)])
        ELSE users

\* mutant: a history of exactly 1 + n messages is compacted
HasMiddleOffByOne(h, n) == Len(h) >= 1 + n

\* mutant: the compaction path starts one message late
HasMiddleLate(h, n) == Len(h) > 2 + n

HasMiddle(h, n) == Len(h) > 1 + n

FirstMsg(h) == IF Len(h) > 0 /\ h[1].role = "user" THEN h[1] ELSE Null

\* mutant: the window is one message too long
RawTailOneMore(h, n) ==
    IF HasMiddle(h, n) THEN SliceLast(h, n + 1)
    ELSE IF FirstMsg(h) # Null THEN Slice(h, 1, Len(h))
    ELSE h

RawTail(h, n) ==
    IF HasMiddle(h, n) THEN SliceLast(h, n)
    ELSE IF FirstMsg(h) # Null THEN Slice(h, 1, Len(h))
    ELSE h

TailOf(h, n) ==
    IF HasMiddle(h, n) THEN prioritizeUserRequests(RawTail(h, n)) ELSE RawTail(h, n)

PRIOR_HEADING == T("## Prior conversation (condensed)")
RELIABILITY_RULE == T("## Reliability rule")

\* systemContent, as the sequence of the pieces concatenated into it
SystemContent(systemPrompt, summary) ==
    <<systemPrompt>>
      \o (IF Truthy(summary) THEN <<PRIOR_HEADING, summary>> ELSE <<>>)
      \o <<RELIABILITY_RULE>>

\* mutant: the summary travels as an assistant message after the anchor
buildMessagesSummaryAsMessage(systemPrompt, h, newInput, n, summary) ==
    <<Msg("system", <<systemPrompt, RELIABILITY_RULE>>)>>
      \o (IF FirstMsg(h) # Null THEN <<FirstMsg(h)>> ELSE <<>>)
      \o (IF Truthy(summary) THEN <<Msg("assistant", summary)>> ELSE <<>>)
      \o TailOf(h, n)
      \o <<Msg("user", newInput)>>

buildMessages(systemPrompt, h, newInput, n, summary) ==
    <<Msg("system", SystemContent(systemPrompt, summary))>>
      \o (IF FirstMsg(h) # Null THEN <<FirstMsg(h)>> ELSE <<>>)
      \o TailOf(h, n)
      \o <<Msg("user", newInput)>>

-----------------------------------------------------------------------------
(* commands/chat-history.ts, commands/chat-events.ts, commands/clear.ts    *)

\* What JSON.parse makes of the summary file.  A value carries the result of
\* typeof; an object carries the four properties readSummaryState looks at,
\* Undefined standing for a property the object does not have.
Undefined == [typeof |-> "undefined"]
JString(t) == [typeof |-> "string", value |-> t]
JNumber(n) == [typeof |-> "number", finite |-> TRUE, value |-> n]
JInfinity == [typeof |-> "number", finite |-> FALSE, value |-> 0]   \* 1e999
JTrue == [typeof |-> "boolean", value |-> TRUE]
JNull == [typeof |-> "object", null |-> TRUE]
JObject(props) == [typeof |-> "object", null |-> FALSE, props |-> props]

NoProps ==
    [summary |-> Undefined, summarizedUntil |-> Undefined,
     firstUserMessage |-> Undefined, incrementalUpdates |-> Undefined]

Missing == [missing |-> TRUE]           \* the summary file does not exist
Unparsable == [unparsable |-> TRUE]     \* JSON.parse throws on the summary file
EmptyObject == JObject(NoProps)         \* the summary file holds "{}"

\* a JSON array file: absent, or holding the array data
NoFile == [exists |-> FALSE, data |-> <<>>]
ArrayFile(data) == [exists |-> TRUE, data |-> data]

IsHistoryEntry(m) == m.role \in {"user", "assistant"}

readHistory(file) ==
    IF ~file.exists THEN <<>> ELSE SelectSeq(file.data, IsHistoryEntry)

\* mutant: only the entries of the turn are written
writeHistoryLastTurnOnly(msgs) == ArrayFile(SliceLast(msgs, 2))

writeHistory(msgs) == ArrayFile(msgs)

\* !data || typeof data !== "object"
IsObject(data) == data.typeof = "object" /\ ~data.null

IsFiniteNumber(v) == v.typeof = "number" /\ v.finite

\* mutant: a record without a usable incrementalUpdates is rejected
readSummaryStateStrict(file) ==
    IF file = Missing THEN Null
    ELSE IF file = Unparsable THEN Null
    ELSE IF ~IsObject(file) THEN Null
    ELSE LET candidate == file.props
         IN  IF \/ candidate.summary.typeof # "string"
                \/ ~IsFiniteNumber(candidate.summarizedUntil)
                \/ candidate.summarizedUntil.value < 1
                \/ candidate.firstUserMessage.typeof # "string"
                \/ ~IsFiniteNumber(candidate.incrementalUpdates)
                \/ candidate.incrementalUpdates.value < 0
             THEN Null
             ELSE [summary |-> stripPreviousSummaryPrefix(candidate.summary.value),
                   summarizedUntil |-> candidate.summarizedUntil.value,
                   firstUserMessage |-> candidate.firstUserMessage.value,
                   incrementalUpdates |-> candidate.incrementalUpdates.value]

readSummaryState(file) ==
    IF file = Missing THEN Null
    ELSE IF file = Unparsable THEN Null
    ELSE IF ~IsObject(file) THEN Null
    ELSE LET candidate == file.props
             incrementalUpdatesRaw == candidate.incrementalUpdates
         IN  IF \/ candidate.summary.typeof # "string"
                \/ ~IsFiniteNumber(candidate.summarizedUntil)
                \/ candidate.summarizedUntil.value < 1
                \/ candidate.firstUserMessage.typeof # "string"
             THEN Null
             ELSE [summary |-> stripPreviousSummaryPrefix(candidate.summary.value),
                   summarizedUntil |-> candidate.summarizedUntil.value,
                   firstUserMessage |-> candidate.firstUserMessage.value,
                   incrementalUpdates |->
                       IF IsFiniteNumber(incrementalUpdatesRaw)
                            /\ incrementalUpdatesRaw.value >= 0
                       THEN incrementalUpdatesRaw.value ELSE 0]

\* mutant: the anchor text is not stored
writeSummaryStateWithoutAnchor(state) ==
    JObject([summary |-> JString(state.summary),
             summarizedUntil |-> JNumber(state.summarizedUntil),
             firstUserMessage |-> JString(Empty),
             incrementalUpdates |-> JNumber(state.incrementalUpdates)])

\* mutant: the record is written as older versions wrote it, without the counter
writeSummaryStateWithoutCounter(state) ==
    JObject([summary |-> JString(state.summary),
             summarizedUntil |-> JNumber(state.summarizedUntil),
             firstUserMessage |-> JString(state.firstUserMessage),
             incrementalUpdates |-> Undefined])

\* JSON.stringify(state) written to the summary file
writeSummaryState(state) ==
    JObject([summary |-> JString(state.summary),
             summarizedUntil |-> JNumber(state.summarizedUntil),
             firstUserMessage |-> JString(state.firstUserMessage),
             incrementalUpdates |-> JNumber(state.incrementalUpdates)])

clearSummaryState(file) == IF file # Missing THEN EmptyObject ELSE file

\* the history record after clearHistory
clearHistory(file) == IF file.exists THEN ArrayFile(<<>>) ELSE file

\* an array element that has the fields of a ChatTurnEvent
isChatTurnEvent(value) ==
    {"timestamp", "trace", "hasVerifiedWrite", "replyWasGuarded"} \subseteq DOMAIN value

readChatEvents(file) ==
    IF ~file.exists THEN <<>> ELSE SelectSeq(file.data, isChatTurnEvent)

MAX_EVENTS == 200

\* mutant: past the cap the newest events are the ones dropped
appendChatEventKeepsOldest(file, event) ==
    ArrayFile(Slice(Append(readChatEvents(file), event), 0, MAX_EVENTS))

appendChatEvent(file, event) ==
    ArrayFile(SliceLast(Append(readChatEvents(file), event), MAX_EVENTS))

clearChatEvents(file) == IF file.exists THEN ArrayFile(<<>>) ELSE file

\* the three records after runClear: it calls clearHistory(cwd) and nothing else
runClear(files) ==
    [history |-> clearHistory(files.history),
     summary |-> clearSummaryState(files.summary),
     events |-> files.events]

-----------------------------------------------------------------------------
(* commands/reply-guard.ts                                                 *)

\* the trimmed replies of the model that COMPLETION_CLAIM_PATTERN matches
CompletionClaims == {"I've updated the styles.", "Done! Updated the page."}

\* mutant: a write counts whether it succeeded or not
HasAnyWrite(trace) ==
    \E k \in 1..Len(trace.toolEvents) :
        trace.toolEvents[k].toolName = "write_project_file"

HasOkWrite(trace) ==
    \E k \in 1..Len(trace.toolEvents) :
        trace.toolEvents[k].toolName = "write_project_file" /\ trace.toolEvents[k].ok

\* mutant: a guarded reply is saved with a note appended
guardAssistantReplyAnnotated(reply, trace) ==
    LET trimmed == Trim(reply)
        hasVerifiedWrite == IF trace = Null THEN FALSE ELSE HasOkWrite(trace)
        guarded == Truthy(trimmed) /\ ~hasVerifiedWrite
                     /\ trimmed.body \in CompletionClaims
    IN  [replyToSave |-> IF guarded THEN T("reply with an unverified-claim note")
                         ELSE trimmed,
         guarded |-> guarded,
         hasVerifiedWrite |-> hasVerifiedWrite]

guardAssistantReply(reply, trace) ==
    LET trimmed == Trim(reply)
        hasVerifiedWrite == IF trace = Null THEN FALSE ELSE HasOkWrite(trace)
        looksLikeCompletionClaim == trimmed.body \in CompletionClaims
    IN  [replyToSave |-> trimmed,
         guarded |-> Truthy(trimmed) /\ ~hasVerifiedWrite /\ looksLikeCompletionClaim,
         hasVerifiedWrite |-> hasVerifiedWrite]

normalizeTurnTrace(trace) ==
    IF trace # Null THEN trace
    ELSE [toolEvents |-> <<>>, stepsUsed |-> 0, finishReason |-> "unknown"]

-----------------------------------------------------------------------------
(* ai/summarize.ts: the condensation request and the local fallback        *)

Throw == [throw |-> TRUE]           \* generateText rejects

\* mutant: every non-empty text of the model is accepted
AdequateNonEmpty(t) == Truthy(t)

Adequate(t) == Truthy(t) /\ Chars(t) >= MIN_SUMMARY_CHARS

\* primaryOut, retryOut: what normalizeSummary makes of the model's text in the
\* primary and in the retry request, or Throw
summarizeConversationWithRetry(msgs, primaryOut, retryOut) ==
    IF Len(msgs) = 0 THEN [threw |-> FALSE, summary |-> Empty, source |-> "null"]
    ELSE IF primaryOut = Throw THEN [threw |-> TRUE, summary |-> Empty, source |-> "null"]
    ELSE IF Adequate(stripPreviousSummaryPrefix(primaryOut))
    THEN [threw |-> FALSE, summary |-> stripPreviousSummaryPrefix(primaryOut),
          source |-> "model-primary"]
    ELSE IF retryOut = Throw THEN [threw |-> TRUE, summary |-> Empty, source |-> "null"]
    ELSE IF Adequate(stripPreviousSummaryPrefix(retryOut))
    THEN [threw |-> FALSE, summary |-> stripPreviousSummaryPrefix(retryOut),
          source |-> "model-retry"]
    ELSE [threw |-> FALSE, summary |-> Empty, source |-> "null"]

\* how a generateText call ended: it rejected, or its text passed or failed
\* the test of MIN_SUMMARY_CHARS
ResultOf(out) ==
    IF out = Throw THEN "error"
    ELSE IF Adequate(stripPreviousSummaryPrefix(out)) THEN "adequate"
    ELSE "inadequate"

\* mutant: the retry is issued whatever the primary request gave
RequestsMadeAlwaysRetry(msgs, primaryOut, retryOut) ==
    IF Len(msgs) = 0 THEN <<>>
    ELSE <<[kind |-> "primary", result |-> ResultOf(primaryOut)],
           [kind |-> "retry", result |-> ResultOf(retryOut)]>>

\* the generateText calls summarizeConversationWithRetry makes, in order, each
\* with how it ended
RequestsMade(msgs, primaryOut, retryOut) ==
    IF Len(msgs) = 0 THEN <<>>
    ELSE IF primaryOut = Throw \/ Adequate(stripPreviousSummaryPrefix(primaryOut))
    THEN <<[kind |-> "primary", result |-> ResultOf(primaryOut)]>>
    ELSE <<[kind |-> "primary", result |-> ResultOf(primaryOut)],
           [kind |-> "retry", result |-> ResultOf(retryOut)]>>

HasPart(m) == Trim(m.content) # Empty

IsPriorSummary(m) == m.role = "assistant" /\ m.content.pre > 0

\* parts.join("\n\n") of buildFallbackSummary: "" when no message of the last
\* FALLBACK_WINDOW has text, else the digest of those that have
buildFallbackSummary(msgs) ==
    LET parts == SelectSeq(SliceLast(msgs, FALLBACK_WINDOW), HasPart)
    IN  IF Len(msgs) = 0 \/ Len(parts) = 0 THEN Empty
        ELSE IF IsPriorSummary(parts[1]) THEN T("digest with prior summary")
        ELSE T("digest")

-----------------------------------------------------------------------------
(* commands/chat.ts: getCachedOrFreshSummary                               *)

SYSTEM_PROMPT == T("system prompt")

NoFlags == [primary |-> FALSE, retry |-> FALSE, fallback |-> FALSE]

\* { role: "assistant", content: `Previous condensed summary:\n${rollingSummary}` }
PriorSummaryMessage(rolling) ==
    Msg("assistant", [pre |-> rolling.pre + 1, body |-> rolling.body])

\* mutant: the request holds the chunk alone
SummaryInputChunkOnly(rolling, chunk) == chunk

SummaryInput(rolling, chunk) ==
    IF Truthy(rolling) THEN <<PriorSummaryMessage(rolling)>> \o chunk ELSE chunk

\* one iteration of the chunk loop: the summary the chunk yields ("" = break)
ChunkOutcome(rolling, chunk, primaryOut, retryOut) ==
    LET summaryInput == SummaryInput(rolling, chunk)
        modelSummary == summarizeConversationWithRetry(summaryInput, primaryOut, retryOut)
        summarized == IF modelSummary.threw THEN Empty ELSE Trim(modelSummary.summary)
        finalSummary == IF Truthy(summarized) THEN summarized
                        ELSE buildFallbackSummary(summaryInput)
    IN  [finalSummary |-> finalSummary,
         fromModel |-> Truthy(summarized),
         source |-> modelSummary.source,
         summaryInput |-> summaryInput,
         requests |-> RequestsMade(summaryInput, primaryOut, retryOut)]

FinalSource(flags, finalSummary) ==
    IF flags.retry THEN "model-retry"
    ELSE IF flags.primary THEN "model-primary"
    ELSE IF flags.fallback THEN "fallback-local"
    ELSE IF finalSummary # Null THEN "cache-reuse"
    ELSE "none"

\* mutant: the check of processedChunks is missing
CommitAlways(processed, planned) == TRUE

\* if (processedChunks !== chunks.length) return without writing
CommitAllowed(processed, planned) == processed = planned

\* mutant: the record is written as soon as one chunk was processed
AfterLoopCommitsProgress(file, p, rolling, processed, planned, flags) ==
    LET finalSummary == IF Truthy(rolling) THEN rolling ELSE Null
        result == [summary |-> finalSummary, source |-> FinalSource(flags, finalSummary)]
    IN  IF finalSummary = Null \/ processed = 0
        THEN [file |-> file, result |-> result, writes |-> 0]
        ELSE [file |-> writeSummaryState(
                          [summary |-> finalSummary,
                           summarizedUntil |-> p.middleEnd,
                           firstUserMessage |-> p.firstUserMessage,
                           incrementalUpdates |-> p.nextIncrementalUpdates]),
              result |-> result,
              writes |-> 1]

\* mutant: the record claims one message more than was summarized
AfterLoopCoversWindow(file, p, rolling, processed, planned, flags) ==
    LET finalSummary == IF Truthy(rolling) THEN rolling ELSE Null
        result == [summary |-> finalSummary, source |-> FinalSource(flags, finalSummary)]
    IN  IF finalSummary = Null \/ ~CommitAllowed(processed, planned)
        THEN [file |-> file, result |-> result, writes |-> 0]
        ELSE [file |-> writeSummaryState(
                          [summary |-> finalSummary,
                           summarizedUntil |-> p.middleEnd + 1,
                           firstUserMessage |-> p.firstUserMessage,
                           incrementalUpdates |-> p.nextIncrementalUpdates]),
              result |-> result,
              writes |-> 1]

\* mutant: the record holds the number of messages condensed in this run
AfterLoopStoresCount(file, p, rolling, processed, planned, flags) ==
    LET finalSummary == IF Truthy(rolling) THEN rolling ELSE Null
        result == [summary |-> finalSummary, source |-> FinalSource(flags, finalSummary)]
    IN  IF finalSummary = Null \/ ~CommitAllowed(processed, planned)
        THEN [file |-> file, result |-> result, writes |-> 0]
        ELSE [file |-> writeSummaryState(
                          [summary |-> finalSummary,
                           summarizedUntil |-> p.middleEnd - p.summarizeFrom,
                           firstUserMessage |-> p.firstUserMessage,
                           incrementalUpdates |-> p.nextIncrementalUpdates]),
              result |-> result,
              writes |-> 1]

\* the code after the chunk loop: the summary record and the value returned
AfterLoop(file, p, rolling, processed, planned, flags) ==
    LET finalSummary == IF Truthy(rolling) THEN rolling ELSE Null
        result == [summary |-> finalSummary, source |-> FinalSource(flags, finalSummary)]
    IN  IF finalSummary = Null \/ ~CommitAllowed(processed, planned)
        THEN [file |-> file, result |-> result, writes |-> 0]
        ELSE [file |-> writeSummaryState(
                          [summary |-> finalSummary,
                           summarizedUntil |-> p.middleEnd,
                           firstUserMessage |-> p.firstUserMessage,
                           incrementalUpdates |-> p.nextIncrementalUpdates]),
              result |-> result,
              writes |-> 1]

UserInputs == {T("q")}

\* splitSummaryChunks(unsummarizedMiddle): both limits take their defaults
DefaultLimits ==
    [maxMessages |-> Num(SUMMARY_CHUNK_MAX_MESSAGES),
     maxChars |-> Num(SUMMARY_CHUNK_MAX_CHARS)]

\* getCachedOrFreshSummary up to its first await, then buildMessages when it
\* returned without a condensation request
BeginTurn(input) ==
    /\ pc \in {"idle", "cleared"}
    /\ turns < MaxTurns
    /\ \E h \in {readHistory(historyFile)} :
       \E cached \in {readSummaryState(summaryFile)} :
       \E p \in {planSummaryUpdate(h, maxHistory, cached)} :
       \E unsummarizedMiddle \in {Slice(h, p.summarizeFrom, p.middleEnd)} :
       \E c \in {IF p.summarizeFrom >= p.middleEnd THEN <<>>
                ELSE splitSummaryChunks(unsummarizedMiddle, chunkLimits.maxMessages,
                                        chunkLimits.maxChars)} :
       LET early == IF Truthy(p.reuseCachedSummary)
                    THEN [summary |-> p.reuseCachedSummary, source |-> "cache-reuse"]
                    ELSE [summary |-> Null, source |-> "none"]
           returns == Truthy(p.reuseCachedSummary) \/ Len(c) = 0
       IN  /\ history' = h
           /\ cachedIn' = cached
           /\ plan' = p
           /\ chunks' = c
           /\ rollingSummary' = IF Truthy(p.seedSummary) /\ ~returns
                                THEN stripPreviousSummaryPrefix(p.seedSummary)
                                ELSE Empty
           /\ summaryResult' = IF returns THEN early ELSE Null
           /\ messages' = IF returns
                          THEN buildMessages(SYSTEM_PROMPT, h, input, maxHistory,
                                             early.summary)
                          ELSE <<>>
           /\ pc' = IF returns THEN "sending" ELSE "summarizing"
    /\ userMessage' = input
    /\ processedChunks' = 0
    /\ used' = NoFlags
    /\ requests' = <<>>
    /\ outcomes' = <<>>
    /\ summaryWrites' = 0
    /\ summaryAtStart' = summaryFile
    /\ pending' = {}
    /\ prevPending' = pending
    /\ turns' = turns + 1
    /\ turnResult' = Null
    /\ UNCHANGED <<historyFile, summaryFile, eventsFile, maxHistory, chunkLimits,
            traceState, toolEvents>>

ModelTexts == {Empty, T("tiny"), [pre |-> 1, body |-> "S1"]}
ModelOutcomes == ModelTexts \cup {Throw}

RECURSIVE Flatten(_)
Flatten(ss) == IF Len(ss) = 0 THEN <<>> ELSE Head(ss) \o Flatten(Tail(ss))

\* one iteration of the chunk loop, and the code after the loop when the loop
\* ends with it (break, or the last chunk)
SummarizeChunk(primaryOut, retryOut) ==
    /\ pc = "summarizing"
    /\ \E o \in {ChunkOutcome(rollingSummary, chunks[processedChunks + 1],
                              primaryOut, retryOut)} :
       LET i == processedChunks
           stop == ~Truthy(o.finalSummary)
           rolling == IF stop THEN rollingSummary
                      ELSE stripPreviousSummaryPrefix(o.finalSummary)
           processed == IF stop THEN processedChunks ELSE processedChunks + 1
           flags == IF stop THEN used
                    ELSE IF o.fromModel /\ o.source = "model-retry"
                    THEN [used EXCEPT !.retry = TRUE]
                    ELSE IF o.fromModel /\ o.source = "model-primary"
                    THEN [used EXCEPT !.primary = TRUE]
                    ELSE IF o.fromModel THEN used
                    ELSE [used EXCEPT !.fallback = TRUE]
           over == stop \/ processed = Len(chunks)
           done == Len(Flatten(SubSeq(chunks, 1, processed)))
           after == AfterLoop(summaryFile, plan, rolling, processed, Len(chunks), flags)
       IN  /\ rollingSummary' = rolling
           /\ processedChunks' = processed
           /\ used' = flags
           /\ requests' = requests \o [k \in 1..Len(o.requests) |->
                                          [chunk |-> i,
                                           kind |-> o.requests[k].kind,
                                           messages |-> o.summaryInput,
                                           result |-> o.requests[k].result]]
           /\ outcomes' = Append(outcomes,
                                 [chunk |-> i,
                                  chunkSource |-> IF o.fromModel THEN o.source
                                                  ELSE "null",
                                  finalSummary |-> o.finalSummary,
                                  usedFallback |-> ~stop /\ ~o.fromModel,
                                  rollingSummary |-> rolling])
           /\ IF over
              THEN /\ summaryFile' = after.file
                   /\ summaryWrites' = summaryWrites + after.writes
                   /\ summaryResult' = after.result
                   /\ messages' = buildMessages(SYSTEM_PROMPT, history, userMessage,
                                                maxHistory, after.result.summary)
                   /\ pending' = (plan.summarizeFrom + done)..(plan.middleEnd - 1)
                   /\ pc' = "sending"
              ELSE /\ UNCHANGED <<summaryFile, summaryWrites, summaryResult, messages,
                                  pending>>
                   /\ pc' = "summarizing"
    /\ UNCHANGED <<historyFile, eventsFile, maxHistory, history, userMessage,
                   cachedIn, plan, chunks, summaryAtStart, prevPending, turns,
                   turnResult, chunkLimits, traceState, toolEvents>>

-----------------------------------------------------------------------------
(* commands/chat.ts: sendTurnAndPersist; commands/clear.ts: runClear       *)

\* the command is over: its locals are gone
TurnOver ==
    /\ pc' = "idle"
    /\ history' = <<>>
    /\ userMessage' = Empty
    /\ cachedIn' = Null
    /\ plan' = NoWorkPlan(Empty, 0)
    /\ chunks' = <<>>
    /\ rollingSummary' = Empty
    /\ processedChunks' = 0
    /\ used' = NoFlags
    /\ summaryResult' = Null
    /\ messages' = <<>>
    /\ requests' = <<>>
    /\ outcomes' = <<>>
    /\ summaryWrites' = 0
    /\ summaryAtStart' = summaryFile

NO_TEXT_REPLY == T("(No text reply from the model.)")

WriteTrace ==
    [toolEvents |-> <<[toolName |-> "write_project_file", ok |-> TRUE]>>,
     stepsUsed |-> 2, finishReason |-> "stop"]

\* what chat.send can resolve to: the reply text and the trace left in traceState
ChatResults ==
    { [reply |-> Empty, trace |-> Null],
      [reply |-> T("I've updated the styles."), trace |-> WriteTrace] }

\* chat.send resolves: guard the reply, write the history, append the event
ChatReply(reply, trace) ==
    /\ pc = "sending"
    /\ LET guarded == guardAssistantReply(reply, trace)
           replyToSave == IF Truthy(guarded.replyToSave) THEN guarded.replyToSave
                          ELSE NO_TEXT_REPLY
           nextHistory == history \o <<Msg("user", userMessage),
                                       Msg("assistant", replyToSave)>>
       IN  /\ historyFile' = writeHistory(nextHistory)
           /\ eventsFile' = appendChatEvent(eventsFile,
                  [timestamp |-> turns,
                   trace |-> normalizeTurnTrace(trace),
                   hasVerifiedWrite |-> guarded.hasVerifiedWrite,
                   replyWasGuarded |-> guarded.guarded,
                   summarySource |-> summaryResult.source])
           /\ turnResult' = [reply |-> reply,
                             traceState |-> trace,
                             guarded |-> guarded,
                             nextHistory |-> nextHistory,
                             trace |-> normalizeTurnTrace(trace)]
    /\ TurnOver
    /\ UNCHANGED <<summaryFile, maxHistory, pending, prevPending, turns, chunkLimits,
            traceState, toolEvents>>

\* mutant: a failed turn still records the user input
ChatFailKeepsInput ==
    /\ pc = "sending"
    /\ historyFile' = writeHistory(Append(history, Msg("user", userMessage)))
    /\ TurnOver
    /\ UNCHANGED <<summaryFile, eventsFile, maxHistory, pending, prevPending,
                   turns, turnResult, chunkLimits, traceState, toolEvents>>

\* chat.send rejects (error, abort, timeout): nothing is persisted
ChatFail ==
    /\ pc = "sending"
    /\ TurnOver
    /\ UNCHANGED <<historyFile, summaryFile, eventsFile, maxHistory, pending,
                   prevPending, turns, turnResult, chunkLimits,
                   traceState, toolEvents>>

\* mutant: the SIGINT handler also saves the input of the unfinished turn
InterruptSavesInput(interactive) ==
    /\ pc = "summarizing"
    /\ historyFile' = IF interactive
                      THEN writeHistory(Append(history, Msg("user", userMessage)))
                      ELSE historyFile
    /\ TurnOver
    /\ UNCHANGED <<summaryFile, eventsFile, maxHistory, pending, prevPending,
                   turns, turnResult, chunkLimits, traceState, toolEvents>>

\* the command is interrupted while it waits for a condensation request: the
\* process ends; the SIGINT handler of the interactive session first writes the
\* history it holds
Interrupt(interactive) ==
    /\ pc = "summarizing"
    /\ historyFile' = IF interactive THEN writeHistory(history) ELSE historyFile
    /\ TurnOver
    /\ UNCHANGED <<summaryFile, eventsFile, maxHistory, pending, prevPending,
                   turns, turnResult, chunkLimits, traceState, toolEvents>>

\* potion-kit clear, run between turns
Clear ==
    /\ pc \in {"idle", "cleared"}
    /\ turns < MaxTurns
    /\ LET after == runClear([history |-> historyFile, summary |-> summaryFile,
                              events |-> eventsFile])
       IN  /\ historyFile' = after.history
           /\ summaryFile' = after.summary
           /\ eventsFile' = after.events
    /\ pc' = "cleared"
    /\ pending' = {}
    /\ prevPending' = {}
    /\ UNCHANGED <<maxHistory, history, userMessage, cachedIn, plan, chunks,
                   rollingSummary, processedChunks, used, summaryResult, messages,
                   requests, outcomes,
                   summaryWrites, summaryAtStart, turns, turnResult,
                   chunkLimits, traceState, toolEvents>>

-----------------------------------------------------------------------------
(* The stored records a session can start from.                            *)

RoleAt(i) == IF i % 2 = 0 THEN "user" ELSE "assistant"

\* a history as the chat command writes it: user and assistant alternate
Alternating(contents) ==
    [k \in 1..Len(contents) |-> Msg(RoleAt(k - 1), contents[k])]

Repeat(x, n) == [k \in 1..n |-> x]

\* plain histories, and histories that hold an oversized reply followed by a
\* run of whitespace-only messages (readHistory admits every string content)
StoredHistories ==
    { ArrayFile(Alternating(<<T("q")>> \o Repeat(T("m"), t))) : t \in 0..MaxLen } \cup
    { ArrayFile(Alternating(<<T("q"), T("BIG")>> \o Repeat(T(" "), MaxBlankRun)
                              \o Repeat(T("m"), t))) : t \in 1..MaxN }

\* a summary record an earlier run left, one extension short of the ceiling,
\* and the same as a version that stored the summary under its label wrote it
StoredSummaries ==
    { writeSummaryState(
        [summary |-> t, summarizedUntil |-> 2, firstUserMessage |-> T("q"),
         incrementalUpdates |-> MAX_INCREMENTAL_SUMMARY_UPDATES - 1]) :
        t \in {T("S0"), [pre |-> 2, body |-> "S0"]} }

TypeDefaults ==
    /\ pc = "idle"
    /\ history = <<>>
    /\ userMessage = Empty
    /\ cachedIn = Null
    /\ plan = NoWorkPlan(Empty, 0)
    /\ chunks = <<>>
    /\ rollingSummary = Empty
    /\ processedChunks = 0
    /\ used = NoFlags
    /\ summaryResult = Null
    /\ messages = <<>>
    /\ requests = <<>>
    /\ outcomes = <<>>
    /\ summaryWrites = 0
    /\ pending = {}
    /\ prevPending = {}
    /\ turns = 0
    /\ turnResult = Null
    /\ chunkLimits = DefaultLimits
    /\ traceState = [current |-> Null]
    /\ toolEvents = <<>>

Init ==
    /\ historyFile \in {NoFile} \cup StoredHistories
    /\ summaryFile \in {Missing} \cup StoredSummaries
    /\ eventsFile = NoFile
    /\ maxHistory \in 1..MaxN
    /\ summaryAtStart = summaryFile
    /\ TypeDefaults

Next ==
    \/ \E input \in UserInputs : BeginTurn(input)
    \/ \E p \in ModelOutcomes, r \in ModelOutcomes : SummarizeChunk(p, r)
    \/ \E res \in ChatResults : ChatReply(res.reply, res.trace)
    \/ ChatFail
    \/ \E interactive \in BOOLEAN : Interrupt(interactive)
    \/ Clear

Spec == Init /\ [][Next]_vars

-----------------------------------------------------------------------------
(* The planner and the assembler on every input within the bounds.         *)

MessageKinds ==
    {Msg("user", T("a")), Msg("user", T("b")), Msg("assistant", T("a"))}

Histories == UNION { [1..n -> MessageKinds] : n \in 0..MaxLen }

CachedRecords ==
    {Missing,
     writeSummaryState([summary |-> Empty, summarizedUntil |-> 2,
                        firstUserMessage |-> T("a"), incrementalUpdates |-> 0])}
    \cup
    { writeSummaryState([summary |-> T("S0"), summarizedUntil |-> u,
                         firstUserMessage |-> f, incrementalUpdates |-> k]) :
        u \in 1..MaxLen, f \in {T("a"), T("b")},
        k \in {0, MAX_INCREMENTAL_SUMMARY_UPDATES - 1, MAX_INCREMENTAL_SUMMARY_UPDATES} }

PlanInit ==
    /\ historyFile \in { ArrayFile(h) : h \in Histories }
    /\ summaryFile \in CachedRecords
    /\ eventsFile = NoFile
    /\ maxHistory \in 1..MaxN
    /\ summaryAtStart = summaryFile
    /\ TypeDefaults

PlanNext == \E input \in UserInputs : BeginTurn(input)

PlanSpec == PlanInit /\ [][PlanNext]_vars

SummaryArguments == {Null, Empty, T("S0")}

\* histories for the assembler: two user texts and two assistant texts
AssemblerKinds == MessageKinds \cup {Msg("assistant", T("b"))}

AssemblerHistories == UNION { [1..n -> AssemblerKinds] : n \in 0..MaxLen }

\* const messages = buildMessages(systemPrompt, history, message, maxHistory, summary)
Assemble ==
    /\ pc = "assemble"
    /\ messages' = buildMessages(SYSTEM_PROMPT, history, userMessage, maxHistory,
                                 summaryResult.summary)
    /\ pc' = "sending"
    /\ UNCHANGED <<historyFile, summaryFile, eventsFile, maxHistory, history,
                   userMessage, cachedIn, plan, chunks, rollingSummary,
                   processedChunks, used, summaryResult, requests, outcomes,
                   summaryWrites,
                   summaryAtStart, pending, prevPending, turns, turnResult,
                   chunkLimits, traceState, toolEvents>>

BuildInit ==
    /\ historyFile = NoFile
    /\ summaryFile = Missing
    /\ eventsFile = NoFile
    /\ maxHistory \in 1..MaxN
    /\ pc = "assemble"
    /\ history \in AssemblerHistories
    /\ userMessage \in {T("q"), T("a")}
    /\ cachedIn = Null
    /\ plan = NoWorkPlan(Empty, 0)
    /\ chunks = <<>>
    /\ rollingSummary = Empty
    /\ processedChunks = 0
    /\ used = NoFlags
    /\ summaryResult \in { [summary |-> x, source |-> "none"] : x \in SummaryArguments }
    /\ messages = <<>>
    /\ requests = <<>>
    /\ outcomes = <<>>
    /\ summaryWrites = 0
    /\ summaryAtStart = summaryFile
    /\ pending = {}
    /\ prevPending = {}
    /\ turns = 0
    /\ turnResult = Null
    /\ chunkLimits = DefaultLimits
    /\ traceState = [current |-> Null]
    /\ toolEvents = <<>>

BuildNext == Assemble

BuildSpec == BuildInit /\ [][BuildNext]_vars

-----------------------------------------------------------------------------
(* Properties.                                                             *)

\* planSummaryUpdate has run for the turn at hand
Planned == pc \in {"summarizing", "sending"}

\* getCachedOrFreshSummary has returned for the turn at hand
Summarized == pc = "sending"

Anchor(h) == IF Len(h) > 0 /\ h[1].role = "user" THEN h[1].content ELSE Empty

\* C1: the summary record is written only when every planned chunk was
\* processed; after a partial run the record is what it was before the turn,
\* and the partial rolling summary is returned and sent in the system message.
C1_CommitRule ==
    Summarized =>
        /\ (summaryWrites > 0 \/ summaryFile # summaryAtStart)
               => processedChunks = Len(chunks)
        /\ processedChunks # Len(chunks) =>
               /\ summaryFile = summaryAtStart
               /\ summaryResult.summary =
                      (IF rollingSummary = Empty THEN Null ELSE rollingSummary)
               /\ rollingSummary # Empty =>
                      messages[1].content =
                          <<SYSTEM_PROMPT, PRIOR_HEADING, rollingSummary, RELIABILITY_RULE>>

\* a run that processed its first chunk, stopped at a later one and returned
\* the partial rolling summary
C1_Witness ==
    /\ Summarized
    /\ processedChunks >= 1
    /\ processedChunks < Len(chunks)
    /\ summaryResult.summary = rollingSummary
    /\ rollingSummary # Empty

\* C2: after a partial run, the range [summarizeFrom, middleEnd) planned on the
\* next turn (same window size, no clear in between) contains every history
\* index of the chunks left unprocessed, and the cached summary is not reused.
C2_RetryCoversUnprocessed ==
    (Planned /\ prevPending # {}) =>
        /\ plan.reuseCachedSummary = Null
        /\ \A i \in prevPending : plan.summarizeFrom <= i /\ i < plan.middleEnd

\* the turn after a partial run took the remainder up again and committed it,
\* two messages further
C2_Witness ==
    /\ Summarized
    /\ prevPending # {}
    /\ pending = {}
    /\ summaryWrites = 1
    /\ \A i \in prevPending : i + 2 < plan.middleEnd

\* C8: after the clear command the history reads as the empty sequence, the
\* summary state reads as null and the turn event ledger is empty.
C8_ClearResetsAll ==
    pc = "cleared" =>
        /\ readHistory(historyFile) = <<>>
        /\ readSummaryState(summaryFile) = Null
        /\ readChatEvents(eventsFile) = <<>>

\* what runClear does reset: the history and the summary state
C8_ClearResetsHistoryAndSummary ==
    pc = "cleared" =>
        /\ readHistory(historyFile) = <<>>
        /\ readSummaryState(summaryFile) = Null

\* the cached state names the current anchor and covers exactly the middle
CoversMiddle ==
    /\ Planned
    /\ plan.middleEnd > 1
    /\ cachedIn # Null
    /\ cachedIn.firstUserMessage = Anchor(history)
    /\ cachedIn.summarizedUntil = Len(history) - maxHistory

CacheHit ==
    /\ plan.middleEnd = Len(history) - maxHistory
    /\ plan.reuseCachedSummary = cachedIn.summary
    /\ plan.nextIncrementalUpdates = cachedIn.incrementalUpdates
    /\ Summarized
    /\ summaryResult.summary = cachedIn.summary
    /\ requests = <<>>
    /\ summaryWrites = 0
    /\ summaryFile = summaryAtStart

\* C3 as stated: every cached state that names the current anchor and has
\* summarizedUntil = middleEnd is reused unchanged, its counter carried over,
\* with no condensation request and no write of the summary record.
C3_CacheHitAnySummary == CoversMiddle => CacheHit

\* C3 as amended: the same for every such cached state whose summary is not
\* the empty string.
C3_CacheHit == (CoversMiddle /\ cachedIn.summary # Empty) => CacheHit

C3_Witness ==
    /\ CoversMiddle
    /\ cachedIn.summary # Empty
    /\ cachedIn.incrementalUpdates = MAX_INCREMENTAL_SUMMARY_UPDATES
    /\ plan.reuseCachedSummary = cachedIn.summary

\* C4: a valid cached state (non-empty summary, anchor matches,
\* 1 <= summarizedUntil < middleEnd) below the ceiling of 8 is extended: no
\* reuse, summarizeFrom = summarizedUntil, the cached summary as seed, and the
\* counter one higher.
C4_IncrementalExtend ==
    ( /\ Planned
      /\ plan.middleEnd > 1
      /\ cachedIn # Null
      /\ cachedIn.summary # Empty
      /\ cachedIn.firstUserMessage = Anchor(history)
      /\ 1 <= cachedIn.summarizedUntil
      /\ cachedIn.summarizedUntil < Len(history) - maxHistory
      /\ cachedIn.incrementalUpdates < 8 )
    => /\ plan.reuseCachedSummary = Null
       /\ plan.summarizeFrom = cachedIn.summarizedUntil
       /\ plan.seedSummary = cachedIn.summary
       /\ plan.nextIncrementalUpdates = cachedIn.incrementalUpdates + 1

\* an extension by one message from the last counter value below the ceiling
C4_Witness ==
    /\ Planned
    /\ cachedIn # Null
    /\ cachedIn.incrementalUpdates = 7
    /\ plan.nextIncrementalUpdates = 8
    /\ plan.summarizeFrom = plan.middleEnd - 1
    /\ plan.summarizeFrom > 1

FullRebuild ==
    /\ plan.reuseCachedSummary = Null
    /\ plan.summarizeFrom = 1
    /\ plan.seedSummary = Null
    /\ plan.nextIncrementalUpdates = 0

\* C5 as stated: once the cached counter has reached 8 the plan always has
\* summarizeFrom = 1, no seed and nextIncrementalUpdates = 0, for every history
\* and every cached summarizedUntil.
C5_CeilingAlways ==
    (Planned /\ cachedIn # Null /\ cachedIn.incrementalUpdates >= 8)
    => /\ plan.summarizeFrom = 1
       /\ plan.seedSummary = Null
       /\ plan.nextIncrementalUpdates = 0

\* C5 as amended: once the cached counter has reached 8, every plan for a
\* history with a middle that is not a cache hit is a full rebuild, however
\* small the newly exposed range; a cache hit reuses the summary and carries
\* the counter over.
C5_Ceiling ==
    (Planned /\ cachedIn # Null /\ cachedIn.incrementalUpdates >= 8
        /\ Len(history) - maxHistory > 1)
    => IF /\ cachedIn.summary # Empty
          /\ cachedIn.firstUserMessage = Anchor(history)
          /\ cachedIn.summarizedUntil = Len(history) - maxHistory
       THEN /\ plan.reuseCachedSummary = cachedIn.summary
            /\ plan.nextIncrementalUpdates = cachedIn.incrementalUpdates
       ELSE FullRebuild

\* at the ceiling, one newly exposed message behind a valid cache is rebuilt
\* from index 1
C5_Witness ==
    /\ Planned
    /\ cachedIn # Null
    /\ cachedIn.incrementalUpdates = 8
    /\ cachedIn.summary # Empty
    /\ cachedIn.firstUserMessage = Anchor(history)
    /\ cachedIn.summarizedUntil = plan.middleEnd - 1
    /\ cachedIn.summarizedUntil > 1
    /\ FullRebuild

\* C6: with a middle, a cached state whose firstUserMessage differs from the
\* current anchor always gives a full rebuild, whatever its summarizedUntil
\* and incrementalUpdates.
C6_AnchorInvalidation ==
    (Planned /\ Len(history) - maxHistory > 1 /\ cachedIn # Null
        /\ cachedIn.firstUserMessage # Anchor(history))
    => FullRebuild

\* a cached state that would have been a hit, and one that would have been
\* extended, but for the anchor
C6_Witness ==
    /\ Planned
    /\ cachedIn # Null
    /\ cachedIn.summary # Empty
    /\ cachedIn.firstUserMessage # Anchor(history)
    /\ cachedIn.summarizedUntil = plan.middleEnd
    /\ cachedIn.incrementalUpdates = 0
    /\ history[1].role = "user"
    /\ FullRebuild

\* C7: for a history of at most 1 + N messages the plan is the no-work plan
\* and the tail forwarded is the whole history after the anchor, in order.
C7_ShortConversation ==
    (Planned /\ Len(history) <= 1 + maxHistory)
    => /\ plan.reuseCachedSummary = Null
       /\ plan.summarizeFrom = plan.middleEnd
       /\ plan.middleEnd = Len(history) - maxHistory
       /\ plan.seedSummary = Null
       /\ plan.nextIncrementalUpdates = 0
       /\ Summarized
       /\ LET k == IF Len(history) > 0 /\ history[1].role = "user" THEN 1 ELSE 0
          IN  /\ Len(messages) = 1 + Len(history) + 1
              /\ SubSeq(messages, 2 + k, Len(messages) - 1)
                     = SubSeq(history, 1 + k, Len(history))

\* a history of exactly 1 + N messages with an anchor, two assistant messages
\* after it and a valid cached state on file
C7_Witness ==
    /\ Planned
    /\ Len(history) = 1 + maxHistory
    /\ maxHistory = 2
    /\ history[1].role = "user"
    /\ history[2].role = "assistant"
    /\ history[3].role = "assistant"
    /\ cachedIn # Null
    /\ cachedIn.summary # Empty
    /\ cachedIn.firstUserMessage = Anchor(history)
    /\ Len(messages) = 5

\* the messages forwarded between the system message, the anchor and the input
HasAnchor == Len(history) > 0 /\ history[1].role = "user"

ForwardedTail ==
    SubSeq(messages, IF HasAnchor THEN 3 ELSE 2, Len(messages) - 1)

OneSystemMessage ==
    /\ Len(messages) >= 2
    /\ messages[1].role = "system"
    /\ \A i \in 2..Len(messages) : messages[i].role \in {"user", "assistant"}

\* C9 as stated: one system message, then at most N + 2 conversation messages
\* made of the anchor, at most N tail messages and the new input.
C9_TailAtMostN ==
    Summarized => /\ OneSystemMessage
                  /\ Len(messages) - 1 <= maxHistory + 2
                  /\ Len(ForwardedTail) <= maxHistory

\* C9 as amended: one system message, then at most N + 2 conversation
\* messages: the anchor when the history starts with a user message, the tail
\* and the new input. The tail has at most N messages, except that a history
\* of exactly N + 1 messages that does not start with a user message is
\* forwarded whole (N + 1 tail messages, no anchor).
C9_BoundedForwarding ==
    Summarized => /\ OneSystemMessage
                  /\ Len(messages) - 1 <= maxHistory + 2
                  /\ IF ~HasAnchor /\ Len(history) = maxHistory + 1
                     THEN ForwardedTail = history
                     ELSE Len(ForwardedTail) <= maxHistory

\* the bound is attained by a history longer than 1 + N
C9_Witness ==
    /\ Summarized
    /\ Len(history) > 1 + maxHistory + 1
    /\ HasAnchor
    /\ Len(messages) - 1 = maxHistory + 2
    /\ Len(ForwardedTail) = maxHistory

RecencyWindow == SubSeq(history, Len(history) - maxHistory + 1, Len(history))

\* C10: the list is one system message (the preface, the summary under its
\* heading when there is one, then the reliability note), the anchor iff the
\* history starts with a user message, the tail (the whole history after the
\* anchor when it has at most 1 + N messages; otherwise the user messages of
\* the last N in order, then the last assistant message of the last N), and
\* the new user input last; anchor and input are forwarded as they are.
C10_AssemblerStructure ==
    Summarized =>
      LET k == IF HasAnchor THEN 1 ELSE 0
          summary == summaryResult.summary
          windowUsers == SelectSeq(RecencyWindow, IsUser)
          windowAssistants == SelectSeq(RecencyWindow, IsAssistant)
      IN  /\ messages[1].role = "system"
          /\ messages[1].content =
                IF summary # Null /\ summary # Empty
                THEN <<SYSTEM_PROMPT, PRIOR_HEADING, summary, RELIABILITY_RULE>>
                ELSE <<SYSTEM_PROMPT, RELIABILITY_RULE>>
          /\ HasAnchor => messages[2] = history[1]
          /\ messages[Len(messages)] = [role |-> "user", content |-> userMessage]
          /\ IF Len(history) <= 1 + maxHistory
             THEN /\ Len(messages) = 1 + Len(history) + 1
                  /\ ForwardedTail = SubSeq(history, 1 + k, Len(history))
             ELSE /\ Len(messages) = 1 + k + Len(ForwardedTail) + 1
                  /\ SelectSeq(ForwardedTail, IsUser) = windowUsers
                  /\ SubSeq(ForwardedTail, 1, Len(windowUsers)) = windowUsers
                  /\ IF Len(windowAssistants) = 0
                     THEN Len(ForwardedTail) = Len(windowUsers)
                     ELSE /\ Len(ForwardedTail) = Len(windowUsers) + 1
                          /\ ForwardedTail[Len(ForwardedTail)]
                               = windowAssistants[Len(windowAssistants)]

\* a summary in the preface, an anchor, and a window whose assistant message
\* precedes a user message
C10_Witness ==
    /\ Summarized
    /\ Len(history) > 1 + maxHistory
    /\ HasAnchor
    /\ summaryResult.summary = T("S0")
    /\ maxHistory >= 2
    /\ RecencyWindow[1].role = "assistant"
    /\ RecencyWindow[2].role = "user"
    /\ Len(messages[1].content) = 4
    /\ messages[Len(messages) - 1].role = "assistant"

\* the last N messages of the history (the whole history when it is shorter)
LastN == SliceLast(history, maxHistory)

\* positions in LastN of the assistant messages
AssistantPositions == { i \in 1..Len(LastN) : LastN[i].role = "assistant" }

LastAssistantPosition ==
    CHOOSE i \in AssistantPositions : \A j \in AssistantPositions : j <= i

KeptPositions ==
    { i \in 1..Len(LastN) :
        LastN[i].role = "user"
        \/ (AssistantPositions # {} /\ i = LastAssistantPosition) }

-----------------------------------------------------------------------------
(* The reply guard on every reply and trace within the bounds.             *)

ToolEvent(name, ok) == [toolName |-> name, ok |-> ok]

Trace(events) == [toolEvents |-> events, stepsUsed |-> Len(events) + 1,
                  finishReason |-> "stop"]

\* what onTurnTrace can leave in traceState.current during chat.send
GuardTraces ==
    {Null,
     Trace(<<ToolEvent("write_project_file", TRUE)>>),
     Trace(<<ToolEvent("write_project_file", FALSE)>>),
     Trace(<<ToolEvent("read_project_file", TRUE)>>),
     Trace(<<ToolEvent("read_project_file", TRUE), ToolEvent("write_project_file", TRUE)>>)}

\* what chat.send can resolve to
GuardReplies ==
    {Empty, T(" "), T("I've updated the styles."), T("  Done! Updated the page.  "),
     T("Here is the plan.")}

GuardInit ==
    /\ historyFile \in {NoFile, ArrayFile(Alternating(<<T("q"), T("m")>>))}
    /\ summaryFile = Missing
    /\ eventsFile = NoFile
    /\ maxHistory \in 1..MaxN
    /\ summaryAtStart = summaryFile
    /\ TypeDefaults

GuardNext ==
    \/ \E input \in UserInputs : BeginTurn(input)
    \/ \E reply \in GuardReplies, trace \in GuardTraces : ChatReply(reply, trace)

GuardSpec == GuardInit /\ [][GuardNext]_vars

\* C13: hasVerifiedWrite is true iff there is a trace and it holds a
\* write_project_file event with ok = true; guarded is true iff the trimmed
\* reply is non-empty, hasVerifiedWrite is false and the trimmed reply matches
\* the completion-claim pattern.
C13_GuardDecision ==
    turnResult # Null =>
      LET trace == turnResult.traceState
          verified == IF trace = Null THEN FALSE
                      ELSE \E k \in 1..Len(trace.toolEvents) :
                              /\ trace.toolEvents[k].toolName = "write_project_file"
                              /\ trace.toolEvents[k].ok = TRUE
          trimmed == Trim(turnResult.reply)
      IN  /\ turnResult.guarded.hasVerifiedWrite = verified
          /\ turnResult.guarded.guarded =
                (trimmed # Empty /\ ~verified /\ trimmed.body \in CompletionClaims)

\* a completion claim next to a failed write is guarded
C13_Witness ==
    /\ turnResult # Null
    /\ turnResult.traceState = Trace(<<ToolEvent("write_project_file", FALSE)>>)
    /\ turnResult.reply = T("I've updated the styles.")
    /\ turnResult.guarded.guarded
    /\ ~turnResult.guarded.hasVerifiedWrite

\* C14: replyToSave is the trimmed reply, and the history written by a turn is
\* the history read, the user input and the trimmed reply (the placeholder
\* when that is empty): it depends on the reply alone, not on the trace or on
\* whether the reply was guarded.
C14_GuardKeepsHistoryClean ==
    [][(pc = "sending" /\ turnResult' # Null)
        => /\ turnResult'.guarded.replyToSave = Trim(turnResult'.reply)
           /\ historyFile' =
                ArrayFile(history \o
                    <<[role |-> "user", content |-> userMessage],
                      [role |-> "assistant",
                       content |-> IF Trim(turnResult'.reply) = Empty
                                   THEN NO_TEXT_REPLY
                                   ELSE Trim(turnResult'.reply)]>>)]_vars

\* a guarded reply that had surrounding whitespace, saved trimmed
C14_Witness ==
    /\ turnResult # Null
    /\ turnResult.guarded.guarded
    /\ turnResult.reply = T("  Done! Updated the page.  ")
    /\ historyFile.data[Len(historyFile.data)]
           = [role |-> "assistant", content |-> T("Done! Updated the page.")]

-----------------------------------------------------------------------------
(* The chunk splitter on every input within the bounds.                    *)

\* contents of 0, 79, 80 and 3200 characters
SplitKinds ==
    {Msg("user", T("")), Msg("assistant", T("tiny")), Msg("user", T("m")),
     Msg("assistant", T("BIG"))}

SplitInputs == UNION { [1..n -> SplitKinds] : n \in 0..MaxLen }

\* maxMessages and maxChars: integers from -1 on, numbers that are no integers
\* (0.5 and 1.5 for the messages, 0.5 for the characters), NaN and infinities
SplitLimits ==
    { [maxMessages |-> a, maxChars |-> c] :
        a \in { Num(n) : n \in (0 - 1)..(MaxN + 1) } \cup {Frac(0), Frac(1), NotFinite},
        c \in {Num(0), Num(50), Num(100), Num(200), Frac(0), NotFinite} }

\* const chunks = splitSummaryChunks(messages, maxMessages, maxChars)
Split ==
    /\ pc = "split"
    /\ chunks' = splitSummaryChunks(history, chunkLimits.maxMessages,
                                    chunkLimits.maxChars)
    /\ pc' = "chunked"
    /\ UNCHANGED <<historyFile, summaryFile, eventsFile, maxHistory, history,
                   userMessage, cachedIn, plan, rollingSummary, processedChunks,
                   used, summaryResult, messages, requests, outcomes,
                   summaryWrites,
                   summaryAtStart, pending, prevPending, turns, turnResult,
                   chunkLimits, traceState, toolEvents>>

SplitInit ==
    /\ historyFile = NoFile
    /\ summaryFile = Missing
    /\ eventsFile = NoFile
    /\ maxHistory = 1
    /\ pc = "split"
    /\ history \in SplitInputs
    /\ chunkLimits \in SplitLimits
    /\ traceState = [current |-> Null]
    /\ toolEvents = <<>>
    /\ userMessage = Empty
    /\ cachedIn = Null
    /\ plan = NoWorkPlan(Empty, 0)
    /\ chunks = <<>>
    /\ rollingSummary = Empty
    /\ processedChunks = 0
    /\ used = NoFlags
    /\ summaryResult = Null
    /\ messages = <<>>
    /\ requests = <<>>
    /\ outcomes = <<>>
    /\ summaryWrites = 0
    /\ summaryAtStart = summaryFile
    /\ pending = {}
    /\ prevPending = {}
    /\ turns = 0
    /\ turnResult = Null

SplitNext == Split

SplitSpec == SplitInit /\ [][SplitNext]_vars

\* number of input messages in the chunks before chunk k
RECURSIVE MessagesBefore(_)
MessagesBefore(k) == IF k <= 1 THEN 0 ELSE MessagesBefore(k - 1) + Len(chunks[k - 1])

\* C15: the chunks, concatenated in order, are the input sequence, and chunk k
\* is the run of the input that starts after the messages of chunks 1..k-1.
C15_SplitLossless ==
    pc = "chunked" =>
        /\ MessagesBefore(Len(chunks) + 1) = Len(history)
        /\ \A k \in 1..Len(chunks) :
              chunks[k] = SubSeq(history, MessagesBefore(k) + 1,
                                 MessagesBefore(k) + Len(chunks[k]))

\* positive limits, and a split into three chunks of different lengths
C15_Witness ==
    /\ pc = "chunked"
    /\ chunkLimits.maxMessages = Num(2)
    /\ chunkLimits.maxChars = Num(200)
    /\ Len(history) = 4
    /\ Len(chunks) = 3
    /\ Len(chunks[1]) = 2
    /\ Len(chunks[2]) = 1
    /\ chunks[3] = <<history[4]>>

\* the character limit in force: a limit that is not positive is replaced by 1
CharLimit ==
    IF chunkLimits.maxChars.finite /\ Positive(chunkLimits.maxChars)
    THEN chunkLimits.maxChars.floor ELSE 1

Oversized(m) == m.content.pre * PREFIX_CHARS + BodyChars(m.content.body) > CharLimit

\* C16: every input message whose content is longer than the character limit
\* is in the chunks, whole, and is the only element of its chunk.
C16_OversizedAlone ==
    pc = "chunked" =>
        /\ \A k \in 1..Len(chunks) : \A i \in 1..Len(chunks[k]) :
              Oversized(chunks[k][i]) => Len(chunks[k]) = 1
        /\ Cardinality({ k \in 1..Len(chunks) :
                            Len(chunks[k]) = 1 /\ Oversized(chunks[k][1]) })
             = Cardinality({ i \in 1..Len(history) : Oversized(history[i]) })
        /\ \A i \in 1..Len(history) :
              Oversized(history[i]) => \E k \in 1..Len(chunks) :
                  /\ chunks[k] = <<history[i]>>
                  /\ MessagesBefore(k) = i - 1

\* an oversized message between two small ones, and one that comes last
C16_Witness ==
    /\ pc = "chunked"
    /\ chunkLimits.maxMessages = Num(3)
    /\ chunkLimits.maxChars = Num(100)
    /\ Len(history) = 4
    /\ history[2].content = T("BIG")
    /\ history[4].content = T("BIG")
    /\ ~Oversized(history[1])
    /\ ~Oversized(history[3])
    /\ Len(chunks) = 4
    /\ chunks[2] = <<history[2]>>
    /\ chunks[4] = <<history[4]>>

-----------------------------------------------------------------------------
(* The turn event ledger under appends and clears, near its cap.           *)

\* events are numbered by their timestamp, in the order they were appended
LedgerEvent(ts, guarded) ==
    [timestamp |-> ts,
     trace |-> normalizeTurnTrace(Null),
     hasVerifiedWrite |-> FALSE,
     replyWasGuarded |-> guarded,
     summarySource |-> "none"]

\* a ledger of k events appended before the behaviour starts
StoredLedger(k) == [i \in 1..k |-> LedgerEvent(i - k, FALSE)]

\* no file, a ledger one short of the cap, a ledger at the cap, and a
\* hand-edited file over the cap that also holds an element that is no event
StoredLedgers ==
    {NoFile,
     ArrayFile(StoredLedger(MAX_EVENTS - 1)),
     ArrayFile(StoredLedger(MAX_EVENTS)),
     ArrayFile(<<[note |-> "not an event"]>> \o StoredLedger(MAX_EVENTS + 1))}

AppendEvent(guarded) ==
    /\ turns < MaxAppends
    /\ eventsFile' = appendChatEvent(eventsFile, LedgerEvent(turns + 1, guarded))
    /\ turns' = turns + 1
    /\ pc' = "idle"
    /\ UNCHANGED <<historyFile, summaryFile, maxHistory, history, userMessage,
                   cachedIn, plan, chunks, rollingSummary, processedChunks, used,
                   summaryResult, messages, requests, outcomes,
                   summaryWrites,
                   summaryAtStart, pending, prevPending, turnResult, chunkLimits,
                   traceState, toolEvents>>

ClearEvents ==
    /\ eventsFile' = clearChatEvents(eventsFile)
    /\ pc' = "cleared"
    /\ UNCHANGED <<historyFile, summaryFile, maxHistory, history, userMessage,
                   cachedIn, plan, chunks, rollingSummary, processedChunks, used,
                   summaryResult, messages, requests, outcomes,
                   summaryWrites,
                   summaryAtStart, pending, prevPending, turns, turnResult,
                   chunkLimits, traceState, toolEvents>>

LedgerInit ==
    /\ historyFile = NoFile
    /\ summaryFile = Missing
    /\ eventsFile \in StoredLedgers
    /\ maxHistory = 1
    /\ summaryAtStart = summaryFile
    /\ TypeDefaults

LedgerNext ==
    \/ \E guarded \in BOOLEAN : AppendEvent(guarded)
    \/ ClearEvents

LedgerSpec == LedgerInit /\ [][LedgerNext]_vars

\* C17: once appendChatEvent or clearChatEvents has been called the ledger
\* holds at most 200 events; the events kept are consecutive in append order
\* (none missing between two kept ones), and after an append the newest
\* event is the last one, so what was dropped is the oldest.
C17_LedgerBound ==
    LET events == readChatEvents(eventsFile)
    IN  /\ (turns > 0 \/ pc = "cleared") => Len(events) <= 200
        /\ \A i \in 1..(Len(events) - 1) :
              events[i + 1].timestamp = events[i].timestamp + 1
        /\ (turns > 0 /\ pc = "idle") =>
              /\ Len(events) > 0
              /\ events[Len(events)].timestamp = turns
        /\ pc = "cleared" => events = <<>>

\* two appends to a ledger at the cap: the two oldest events are gone
C17_Witness ==
    LET events == readChatEvents(eventsFile)
    IN  /\ turns = 2
        /\ pc = "idle"
        /\ Len(events) = 200
        /\ events[1].timestamp = 3 - 200
        /\ events[199].timestamp = 1
        /\ events[200].replyWasGuarded

-----------------------------------------------------------------------------
(* Turns of the session model.                                             *)

\* sendTurnAndPersist returns in this step
TurnCompletes == pc = "sending" /\ turnResult' # Null

\* the turn ends in this step without sendTurnAndPersist returning
TurnAborts == pc \in {"summarizing", "sending"} /\ pc' = "idle" /\ turnResult' = Null

\* C18: a completed turn leaves the stored history as the one before it
\* followed by the user input and one assistant entry, and the ledger as the
\* one before it followed by one event; the stored history gets shorter only
\* in a step of clear.
C18_TurnAppendsTwo ==
    [][LET before == readHistory(historyFile)
           after == readHistory(historyFile')
           events == readChatEvents(eventsFile)
           eventsAfter == readChatEvents(eventsFile')
       IN  /\ TurnCompletes =>
                 /\ Len(after) = Len(before) + 2
                 /\ SubSeq(after, 1, Len(before)) = before
                 /\ after[Len(before) + 1] = [role |-> "user", content |-> userMessage]
                 /\ after[Len(before) + 2].role = "assistant"
                 /\ Len(eventsAfter) = Len(events) + 1
                 /\ SubSeq(eventsAfter, 1, Len(events)) = events
           /\ Len(after) < Len(before) => pc' = "cleared"]_vars

\* two turns completed from an empty directory
C18_Witness ==
    /\ pc = "idle"
    /\ turns = 2
    /\ turnResult # Null
    /\ Len(readHistory(historyFile)) = 4
    /\ readHistory(historyFile)[1].role = "user"
    /\ readHistory(historyFile)[4].role = "assistant"
    /\ Len(readChatEvents(eventsFile)) = 2

\* C19: when a turn ends without completing, the stored history is the one
\* read when the turn began, the ledger is untouched, and the summary record
\* is either the one from before the turn or one that covers the whole
\* planned range, every chunk having been processed.
C19_AbortLeavesStore ==
    [][TurnAborts =>
         /\ readHistory(historyFile) = history
         /\ readHistory(historyFile') = history
         /\ eventsFile' = eventsFile
         /\ summaryFile' = summaryFile
         /\ \/ summaryFile = summaryAtStart
            \/ /\ processedChunks = Len(chunks)
               /\ readSummaryState(summaryFile).summarizedUntil = plan.middleEnd
               /\ readSummaryState(summaryFile).summary = rollingSummary]_vars

\* the chat call failed after the summary of the whole middle was committed
C19_Witness ==
    /\ pc = "idle"
    /\ turns = 1
    /\ turnResult = Null
    /\ readChatEvents(eventsFile) = <<>>
    /\ Len(readHistory(historyFile)) > 3
    /\ readSummaryState(summaryFile) # Null
    /\ readSummaryState(summaryFile).summarizedUntil = Len(readHistory(historyFile)) - maxHistory
    /\ readSummaryState(summaryFile).summarizedUntil > 2

\* C20: a summary record written during the turn has a non-empty summary,
\* summarizedUntil = history.length - N = middleEnd >= 1, the anchor text as
\* firstUserMessage and the plan's nextIncrementalUpdates; and a history of 16
\* entries with N = 10 and no cached state is planned as summarizeFrom = 1,
\* middleEnd = 6 and, once its one chunk is condensed, stored with
\* summarizedUntil = 6.
C20_PersistedState ==
    /\ (pc = "sending" /\ summaryWrites > 0) =>
          /\ readSummaryState(summaryFile).summary # Empty
          /\ readSummaryState(summaryFile).summary # Null
          /\ readSummaryState(summaryFile).summarizedUntil = Len(history) - maxHistory
          /\ readSummaryState(summaryFile).summarizedUntil = plan.middleEnd
          /\ readSummaryState(summaryFile).summarizedUntil >= 1
          /\ readSummaryState(summaryFile).firstUserMessage = Anchor(history)
          /\ readSummaryState(summaryFile).incrementalUpdates = plan.nextIncrementalUpdates
    /\ LET sixteen == Alternating(<<T("q")>> \o Repeat(T("m"), 15))
           p == planSummaryUpdate(sixteen, 10, Null)
           c == splitSummaryChunks(Slice(sixteen, p.summarizeFrom, p.middleEnd),
                                   Num(SUMMARY_CHUNK_MAX_MESSAGES),
                                   Num(SUMMARY_CHUNK_MAX_CHARS))
           stored == AfterLoop(Missing, p, T("S1"), Len(c), Len(c),
                               [NoFlags EXCEPT !.primary = TRUE]).file
       IN  /\ p.reuseCachedSummary = Null
           /\ p.summarizeFrom = 1
           /\ p.middleEnd = 6
           /\ Len(c) = 1
           /\ readSummaryState(stored).summarizedUntil = 6

\* an incremental extend that reaches the ceiling is committed
C20_Witness ==
    /\ pc = "sending"
    /\ summaryWrites = 1
    /\ cachedIn # Null
    /\ plan.summarizeFrom = cachedIn.summarizedUntil
    /\ readSummaryState(summaryFile).incrementalUpdates = MAX_INCREMENTAL_SUMMARY_UPDATES
    /\ readSummaryState(summaryFile).summarizedUntil > cachedIn.summarizedUntil
    /\ readSummaryState(summaryFile).summarizedUntil = Len(history) - maxHistory

-----------------------------------------------------------------------------
(* readSummaryState on every summary file within the bounds.               *)

SummaryValues == {Undefined, JNull, JNumber(1), JString(Empty), JString(T("S0"))}

SummarizedUntilValues ==
    {Undefined, JString(T("2")), JInfinity}
      \cup { JNumber(n) : n \in (0 - 1)..MaxN }

FirstUserMessageValues == {Undefined, JTrue, JString(Empty), JString(T("q"))}

IncrementalUpdatesValues ==
    {Undefined, JNull, JString(T("3")), JInfinity, JNumber(0 - 1), JNumber(0), JNumber(3)}

\* a missing file, a file that is no JSON, JSON values that are no object, and
\* objects with every combination of the four properties
SummaryFiles ==
    {Missing, Unparsable, JNull, JNumber(0), JNumber(7), JString(T("S0")), JTrue}
      \cup { JObject([summary |-> a, summarizedUntil |-> b,
                      firstUserMessage |-> c, incrementalUpdates |-> d]) :
               a \in SummaryValues, b \in SummarizedUntilValues,
               c \in FirstUserMessageValues, d \in IncrementalUpdatesValues }

\* readSummaryState(cwd)
ReadSummary ==
    /\ pc = "idle"
    /\ cachedIn' = readSummaryState(summaryFile)
    /\ pc' = "read"
    /\ UNCHANGED <<historyFile, summaryFile, eventsFile, maxHistory, history,
                   userMessage, plan, chunks, rollingSummary, processedChunks,
                   used, summaryResult, messages, requests, outcomes,
                   summaryWrites,
                   summaryAtStart, pending, prevPending, turns, turnResult,
                   chunkLimits, traceState, toolEvents>>

\* potion-kit clear on the summary file alone
ClearSummary ==
    /\ pc = "idle"
    /\ summaryFile' = clearSummaryState(summaryFile)
    /\ UNCHANGED <<historyFile, eventsFile, maxHistory, pc, history, userMessage,
                   cachedIn, plan, chunks, rollingSummary, processedChunks, used,
                   summaryResult, messages, requests, outcomes,
                   summaryWrites,
                   summaryAtStart, pending, prevPending, turns, turnResult,
                   chunkLimits, traceState, toolEvents>>

ReadInit ==
    /\ historyFile = NoFile
    /\ summaryFile \in SummaryFiles
    /\ eventsFile = NoFile
    /\ maxHistory = 1
    /\ summaryAtStart = summaryFile
    /\ TypeDefaults

ReadNext == ReadSummary \/ ClearSummary

ReadSpec == ReadInit /\ [][ReadNext]_vars

\* the file holds a JSON object
HoldsObject ==
    /\ summaryFile # Missing
    /\ summaryFile # Unparsable
    /\ summaryFile.typeof = "object"
    /\ ~summaryFile.null

\* the three required properties are there with the types and range required
RequiredFieldsOk ==
    /\ summaryFile.props.summary.typeof = "string"
    /\ summaryFile.props.summarizedUntil.typeof = "number"
    /\ summaryFile.props.summarizedUntil.finite
    /\ summaryFile.props.summarizedUntil.value >= 1
    /\ summaryFile.props.firstUserMessage.typeof = "string"

\* C21: readSummaryState returns null exactly when the file is missing,
\* unparsable, not an object, or lacks a string summary, a finite
\* summarizedUntil >= 1 or a string firstUserMessage (the "{}" of clear
\* included); otherwise it returns the record, with incrementalUpdates as
\* stored when that is a finite number >= 0 and 0 when it is missing or invalid.
C21_ReadSummaryState ==
    pc = "read" =>
        /\ cachedIn = Null <=> ~(HoldsObject /\ RequiredFieldsOk)
        /\ summaryFile = EmptyObject => cachedIn = Null
        /\ cachedIn # Null =>
              LET raw == summaryFile.props.incrementalUpdates
              IN  /\ cachedIn.summarizedUntil = summaryFile.props.summarizedUntil.value
                  /\ cachedIn.firstUserMessage = summaryFile.props.firstUserMessage.value
                  /\ cachedIn.incrementalUpdates =
                        (IF raw.typeof = "number" /\ raw.finite /\ raw.value >= 0
                         THEN raw.value ELSE 0)

\* a record of an older version, without incrementalUpdates, is read with 0
C21_Witness ==
    /\ pc = "read"
    /\ HoldsObject
    /\ summaryFile.props.incrementalUpdates = Undefined
    /\ cachedIn # Null
    /\ cachedIn.summary = T("S0")
    /\ cachedIn.summarizedUntil = 2
    /\ cachedIn.incrementalUpdates = 0

-----------------------------------------------------------------------------
(* The chunk loop of the session model.                                    *)

\* positions in requests of the requests issued for chunk i (0-based)
RequestsOf(i) == { k \in 1..Len(requests) : requests[k].chunk = i }

\* the results of the requests issued for chunk i
ResultsOf(i) == { requests[k].result : k \in RequestsOf(i) }

\* the responses of the model that are empty or shorter than 80 characters
StubResponses == { t \in ModelTexts : Chars(t) < 80 }

\* the rolling summary the iteration for chunk i started from
RollingBefore(i) ==
    IF i > 0 THEN outcomes[i].rollingSummary
    ELSE IF plan.seedSummary # Null /\ plan.seedSummary # Empty
    THEN stripPreviousSummaryPrefix(plan.seedSummary)
    ELSE Empty

\* the messages handed to the summarizer for chunk i
InputOf(i) ==
    IF RollingBefore(i) # Empty
    THEN <<[role |-> "assistant",
            content |-> [pre |-> RollingBefore(i).pre + 1,
                         body |-> RollingBefore(i).body]]>> \o chunks[i + 1]
    ELSE chunks[i + 1]

\* C22: the summary stored in the summary record is never one of the model's
\* responses that are empty or shorter than 80 characters; a chunk whose
\* requests gave no adequate response contributes the local fallback
\* condensation of its input, and when that chunk is the last one this
\* fallback is what the record holds.
C22_NoStubStored ==
    /\ \A j \in 1..Len(outcomes) :
          ("adequate" \notin ResultsOf(j - 1) /\ outcomes[j].finalSummary # Empty) =>
              /\ outcomes[j].usedFallback
              /\ outcomes[j].finalSummary = buildFallbackSummary(InputOf(j - 1))
              /\ outcomes[j].rollingSummary
                    = stripPreviousSummaryPrefix(buildFallbackSummary(InputOf(j - 1)))
    /\ (pc = "sending" /\ summaryWrites > 0) =>
          /\ summaryFile.props.summary.value \notin StubResponses
          /\ summaryFile.props.summary.value # Empty
          /\ summaryFile.props.summary.value = outcomes[Len(outcomes)].rollingSummary

\* primary and retry both came back too short for the last chunk, and the
\* record holds the fallback digest
C22_Witness ==
    /\ pc = "sending"
    /\ summaryWrites = 1
    /\ Len(outcomes) = Len(chunks)
    /\ ResultsOf(Len(chunks) - 1) = {"inadequate"}
    /\ Cardinality(RequestsOf(Len(chunks) - 1)) = 2
    /\ outcomes[Len(outcomes)].usedFallback
    /\ summaryFile.props.summary.value = T("digest")

\* the requests of chunk i are a primary request, followed at once by a retry
\* or by nothing
PrimaryThenRetry(i) ==
    LET K == RequestsOf(i)
        first == CHOOSE k \in K : \A l \in K : k <= l
    IN  /\ K # {}
        /\ Cardinality(K) <= 2
        /\ requests[first].kind = "primary"
        /\ \A k \in K \ {first} : k = first + 1 /\ requests[k].kind = "retry"

RetryIssued(i) == \E k \in RequestsOf(i) : requests[k].kind = "retry"

ResultOfKind(i, kind) ==
    LET k == CHOOSE l \in RequestsOf(i) : requests[l].kind = kind
    IN  requests[k].result

\* C23: for every chunk the loop has dealt with, the requests are one primary
\* request and at most one retry after it; the retry is issued exactly when the
\* primary result was empty or shorter than 80 characters; an adequate primary
\* result is followed by no retry and no fallback and becomes the rolling
\* summary; an adequate retry result is followed by no fallback; and the
\* fallback is used only when no request of the chunk gave an adequate result,
\* which, when no request failed with an error, means that the retry was
\* issued and its result was empty or too short as well.
C23_Escalation ==
    \A j \in 1..Len(outcomes) :
        LET i == j - 1
            o == outcomes[j]
        IN  /\ PrimaryThenRetry(i)
            /\ RetryIssued(i) <=> ResultOfKind(i, "primary") = "inadequate"
            /\ ResultOfKind(i, "primary") = "adequate" =>
                  /\ Cardinality(RequestsOf(i)) = 1
                  /\ ~o.usedFallback
                  /\ o.chunkSource = "model-primary"
            /\ (RetryIssued(i) /\ ResultOfKind(i, "retry") = "adequate") =>
                  /\ ~o.usedFallback
                  /\ o.chunkSource = "model-retry"
            /\ o.usedFallback => "adequate" \notin ResultsOf(i)
            /\ (o.usedFallback /\ "error" \notin ResultsOf(i)) =>
                  /\ RetryIssued(i)
                  /\ ResultOfKind(i, "retry") = "inadequate"
            /\ (RetryIssued(i) /\ ResultOfKind(i, "retry") = "inadequate"
                  /\ o.finalSummary # Empty) => o.usedFallback

\* a first chunk settled by the retry, a second by the primary request, and a
\* third by the fallback after two short results
C23_Witness ==
    /\ Len(outcomes) >= 3
    /\ outcomes[1].chunkSource = "model-retry"
    /\ Cardinality(RequestsOf(0)) = 2
    /\ outcomes[2].chunkSource = "model-primary"
    /\ Cardinality(RequestsOf(1)) = 1
    /\ outcomes[3].usedFallback
    /\ ResultsOf(2) = {"inadequate"}

\* C24: a chunk whose primary condensation request failed with an error gets a
\* retry request, and then the local fallback when the retry gave nothing
\* adequate either; the turn goes on to the chat call.
C24_ErrorRetried ==
    \A j \in 1..Len(outcomes) :
        ResultOfKind(j - 1, "primary") = "error" =>
            /\ RetryIssued(j - 1)
            /\ pc \in {"summarizing", "sending"}

\* what the code does on an error: the chunk gets no further request, the
\* local fallback of its input is taken at once (the loop stops when that is
\* empty), and the turn goes on
C24_ErrorFallsBack ==
    \A j \in 1..Len(outcomes) :
        "error" \in ResultsOf(j - 1) =>
            /\ ResultOfKind(j - 1, "primary") = "error" => ~RetryIssued(j - 1)
            /\ outcomes[j].finalSummary = buildFallbackSummary(InputOf(j - 1))
            /\ outcomes[j].usedFallback <=> outcomes[j].finalSummary # Empty
            /\ pc \in {"summarizing", "sending"}

\* the primary request of the only chunk failed and the fallback was stored
C24_Witness ==
    /\ pc = "sending"
    /\ Len(outcomes) = 1
    /\ Len(requests) = 1
    /\ requests[1].result = "error"
    /\ outcomes[1].usedFallback
    /\ summaryWrites = 1

-----------------------------------------------------------------------------
(* Bounds of the chunks.                                                   *)

\* the limits splitSummaryChunks works with
MessageLimit == EffectiveLimit(chunkLimits.maxMessages)
CharsLimit == EffectiveLimit(chunkLimits.maxChars)

RECURSIVE EstimatedChars(_)
EstimatedChars(chunk) ==
    IF Len(chunk) = 0 THEN 0
    ELSE Chars(Head(chunk).content) + 16 + EstimatedChars(Tail(chunk))

ChunksBounded ==
    /\ \A k \in 1..Len(chunks) :
          /\ Len(chunks[k]) >= 1
          /\ Len(chunks[k]) <= MessageLimit
          /\ EstimatedChars(chunks[k]) <= CharsLimit \/ Len(chunks[k]) = 1
    /\ \A k \in 1..(Len(chunks) - 1) :
          \/ Len(chunks[k]) + 1 > MessageLimit
          \/ EstimatedChars(chunks[k]) + EstimatedChars(<<chunks[k + 1][1]>>) > CharsLimit

\* C26: for every pair of limits the limits in force are >= 1, every chunk is
\* non-empty, has at most the message limit of messages and an estimated size
\* of at most the character limit unless it is a single message, and every
\* chunk but the last could not have taken the first message of the next.
C26_ChunkBounds ==
    pc = "chunked" =>
        /\ MessageLimit >= 1
        /\ CharsLimit >= 1
        /\ ChunksBounded

\* the same for limits that are not strictly between 0 and 1; a message limit
\* strictly between 0 and 1 is not replaced by 1 but brought to 0 by Math.floor
C26_ChunkBoundsFromOne ==
    (pc = "chunked"
        /\ ~(chunkLimits.maxMessages.finite /\ chunkLimits.maxMessages.floor = 0
               /\ chunkLimits.maxMessages.frac)
        /\ ~(chunkLimits.maxChars.finite /\ chunkLimits.maxChars.floor = 0
               /\ chunkLimits.maxChars.frac))
    => /\ MessageLimit >= 1
       /\ CharsLimit >= 1
       /\ ChunksBounded

\* a message limit of 0.5: the first chunk returned is empty
C26_Witness ==
    /\ pc = "chunked"
    /\ chunkLimits.maxMessages = Frac(0)
    /\ Len(history) = 2
    /\ Len(chunks) = 3
    /\ chunks[1] = <<>>

-----------------------------------------------------------------------------
(* The range handed to the chunk splitter.                                 *)

\* C27: whenever the plan requires work (reuseCachedSummary = null and
\* summarizeFrom < middleEnd), 1 <= summarizeFrom < middleEnd = history.length
\* - N, and the messages in the chunks are exactly history[summarizeFrom ..
\* middleEnd - 1]: neither the message at index 0 nor one of the last N.
C27_OnlyMiddleCondensed ==
    (Planned /\ plan.reuseCachedSummary = Null /\ plan.summarizeFrom < plan.middleEnd)
    => /\ 1 <= plan.summarizeFrom
       /\ plan.middleEnd = Len(history) - maxHistory
       /\ Flatten(chunks) = [k \in 1..(plan.middleEnd - plan.summarizeFrom) |->
                                history[plan.summarizeFrom + k]]
       /\ Len(Flatten(chunks)) <= Len(history) - maxHistory - 1

\* an incremental extend from index 2 and a full rebuild from index 1
C27_Witness ==
    /\ Planned
    /\ plan.reuseCachedSummary = Null
    /\ plan.summarizeFrom = 2
    /\ plan.middleEnd = 3
    /\ Len(history) = 3 + maxHistory
    /\ Flatten(chunks) = <<history[3]>>

-----------------------------------------------------------------------------
(* The prior-summary label.                                                *)

\* the text begins with "Previous condensed summary:"
BeginsWithLabel(t) == t.pre > 0

-----------------------------------------------------------------------------
(* Writes of the two records within a turn.                                *)

\* a turn is between its start and its end
InTurn == pc \in {"summarizing", "sending"}

\* the step changes what the history record holds
HistoryModified == readHistory(historyFile') # readHistory(historyFile)

\* the step changes the summary record
SummaryModified == summaryFile' # summaryFile

\* C29 as stated: within a turn each of the two records is written at most
\* once, and only in the step in which the chat reply arrives; no step between
\* turn start and the chat reply modifies either record.
C29_WritesAtTurnEnd ==
    [][/\ summaryWrites' <= 1
       /\ (InTurn /\ ~TurnCompletes) => ~HistoryModified /\ ~SummaryModified]_vars

\* C29 as the code has it: the history record is modified once per turn, in
\* the step in which the chat reply arrives, and that step leaves the summary
\* record alone; the summary record is written at most once per turn, in the
\* step that ends condensation with every planned chunk processed, which is
\* before the chat request is sent; no other step of a turn modifies either
\* record.
C29_WriteDiscipline ==
    [][/\ summaryWrites' <= 1
       /\ (InTurn /\ HistoryModified) => TurnCompletes
       /\ TurnCompletes => HistoryModified /\ ~SummaryModified
       /\ (InTurn /\ SummaryModified) =>
             /\ pc = "summarizing"
             /\ pc' = "sending"
             /\ summaryWrites = 0
             /\ summaryWrites' = 1
             /\ processedChunks' = Len(chunks)
             /\ ~HistoryModified]_vars

\* the summary record was replaced and the chat reply is still awaited
C29_Witness ==
    /\ pc = "sending"
    /\ summaryWrites = 1
    /\ summaryFile # summaryAtStart
    /\ readHistory(historyFile) = history
    /\ turnResult = Null

-----------------------------------------------------------------------------
(* commands/chat.ts: two chat processes over one conversation directory.   *)
(* Here pc, history, userMessage, messages, summaryResult and turnResult   *)
(* hold one value per process. pending holds the processes that are in a   *)
(* turn during which the other process completed a turn, and prevPending   *)
(* the process whose last completed turn was such a turn.                  *)

Sessions == {1, 2}

\* what the user of a process types
SessionInput(s) == IF s = 1 THEN T("first session asks") ELSE T("second session asks")

DEFAULT_MAX_HISTORY_MESSAGES == 10

\* the process waits for chat.send
InChat(s) == pc[s] \in {"oneshot", "interactive"}

\* mutant: the stored history is read again when the reply arrives
TurnHistoryReread(s) == readHistory(historyFile)

\* const { history } = params: the history the caller read when it started
TurnHistory(s) == history[s]

\* getCachedOrFreshSummary and buildMessages on a history without a middle:
\* the summary record is read, the plan has no work, nothing is condensed
Prepare(s, h, input) ==
    /\ turns < MaxTurns
    /\ \E p \in {planSummaryUpdate(h, maxHistory, readSummaryState(summaryFile))} :
          /\ ~Truthy(p.reuseCachedSummary)
          /\ p.summarizeFrom >= p.middleEnd
    /\ userMessage' = [userMessage EXCEPT ![s] = input]
    /\ summaryResult' = [summaryResult EXCEPT ![s] = [summary |-> Null, source |-> "none"]]
    /\ messages' = [messages EXCEPT ![s] =
                        buildMessages(SYSTEM_PROMPT, h, input, maxHistory, Null)]
    /\ turnResult' = [turnResult EXCEPT ![s] = Null]
    /\ turns' = turns + 1

\* runOneShot up to the await of chat.send
OneShotBegin(s) ==
    /\ pc[s] = "absent"
    /\ \E h \in {readHistory(historyFile)} :
          /\ history' = [history EXCEPT ![s] = h]
          /\ Prepare(s, h, SessionInput(s))
    /\ pc' = [pc EXCEPT ![s] = "oneshot"]
    /\ UNCHANGED <<historyFile, summaryFile, eventsFile, maxHistory, cachedIn, plan,
                   chunks, rollingSummary, processedChunks, used, requests,
                   outcomes, summaryWrites, summaryAtStart, pending, prevPending,
                   chunkLimits, traceState, toolEvents>>

\* runInteractive up to the first prompt: the history is read once
InteractiveStart(s) ==
    /\ pc[s] = "absent"
    /\ history' = [history EXCEPT ![s] = readHistory(historyFile)]
    /\ pc' = [pc EXCEPT ![s] = "prompt"]
    /\ UNCHANGED <<historyFile, summaryFile, eventsFile, maxHistory, userMessage,
                   cachedIn, plan, chunks, rollingSummary, processedChunks, used,
                   summaryResult, messages, requests, outcomes, summaryWrites,
                   summaryAtStart, pending, prevPending, turns, turnResult,
                   chunkLimits, traceState, toolEvents>>

\* a line typed at the prompt, up to the await of chat.send: the turn works on
\* the history the process holds
InteractiveAsk(s) ==
    /\ pc[s] = "prompt"
    /\ Prepare(s, history[s], SessionInput(s))
    /\ pc' = [pc EXCEPT ![s] = "interactive"]
    /\ UNCHANGED <<historyFile, summaryFile, eventsFile, maxHistory, history,
                   cachedIn, plan, chunks, rollingSummary, processedChunks, used,
                   requests, outcomes, summaryWrites, summaryAtStart, pending,
                   prevPending, chunkLimits, traceState, toolEvents>>

\* chat.send resolves in sendTurnAndPersist; the one-shot process ends, the
\* interactive one keeps result.nextHistory and prompts again
SessionReply(s, reply, trace) ==
    /\ InChat(s)
    /\ LET guarded == guardAssistantReply(reply, trace)
           replyToSave == IF Truthy(guarded.replyToSave) THEN guarded.replyToSave
                          ELSE NO_TEXT_REPLY
           nextHistory == TurnHistory(s) \o <<Msg("user", userMessage[s]),
                                             Msg("assistant", replyToSave)>>
       IN  /\ historyFile' = writeHistory(nextHistory)
           /\ eventsFile' = appendChatEvent(eventsFile,
                  [timestamp |-> turns,
                   trace |-> normalizeTurnTrace(trace),
                   hasVerifiedWrite |-> guarded.hasVerifiedWrite,
                   replyWasGuarded |-> guarded.guarded,
                   summarySource |-> summaryResult[s].source])
           /\ turnResult' = [turnResult EXCEPT ![s] =
                                [reply |-> reply,
                                 traceState |-> trace,
                                 guarded |-> guarded,
                                 nextHistory |-> nextHistory,
                                 trace |-> normalizeTurnTrace(trace)]]
           /\ history' = [history EXCEPT ![s] =
                             IF pc[s] = "interactive" THEN nextHistory ELSE <<>>]
    /\ pc' = [pc EXCEPT ![s] = IF pc[s] = "interactive" THEN "prompt" ELSE "absent"]
    /\ userMessage' = [userMessage EXCEPT ![s] = Empty]
    /\ summaryResult' = [summaryResult EXCEPT ![s] = Null]
    /\ messages' = [messages EXCEPT ![s] = <<>>]
    /\ pending' = (pending \ {s}) \cup {o \in Sessions \ {s} : InChat(o)}
    /\ prevPending' = pending \cap {s}
    /\ UNCHANGED <<summaryFile, maxHistory, cachedIn, plan, chunks, rollingSummary,
                   processedChunks, used, requests, outcomes, summaryWrites,
                   summaryAtStart, turns, chunkLimits, traceState, toolEvents>>

\* chat.send rejects: the one-shot process exits with status 1, the interactive
\* one reports the error and prompts again; nothing is written
SessionFail(s) ==
    /\ InChat(s)
    /\ history' = [history EXCEPT ![s] =
                      IF pc[s] = "interactive" THEN history[s] ELSE <<>>]
    /\ pc' = [pc EXCEPT ![s] = IF pc[s] = "interactive" THEN "prompt" ELSE "absent"]
    /\ userMessage' = [userMessage EXCEPT ![s] = Empty]
    /\ summaryResult' = [summaryResult EXCEPT ![s] = Null]
    /\ messages' = [messages EXCEPT ![s] = <<>>]
    /\ pending' = pending \ {s}
    /\ UNCHANGED <<historyFile, summaryFile, eventsFile, maxHistory, cachedIn, plan,
                   chunks, rollingSummary, processedChunks, used, requests,
                   outcomes, summaryWrites, summaryAtStart, prevPending, turns,
                   turnResult, chunkLimits, traceState, toolEvents>>

\* the interactive process ends: saveAndExit at the prompt, or the SIGINT
\* handler at any time; both write the history the process holds
SessionExit(s) ==
    /\ pc[s] \in {"prompt", "interactive"}
    /\ historyFile' = writeHistory(history[s])
    /\ history' = [history EXCEPT ![s] = <<>>]
    /\ pc' = [pc EXCEPT ![s] = "absent"]
    /\ userMessage' = [userMessage EXCEPT ![s] = Empty]
    /\ summaryResult' = [summaryResult EXCEPT ![s] = Null]
    /\ messages' = [messages EXCEPT ![s] = <<>>]
    /\ pending' = pending \ {s}
    /\ UNCHANGED <<summaryFile, eventsFile, maxHistory, cachedIn, plan, chunks,
                   rollingSummary, processedChunks, used, requests, outcomes,
                   summaryWrites, summaryAtStart, prevPending, turns, turnResult,
                   chunkLimits, traceState, toolEvents>>

\* the directory is empty or holds one completed turn
RaceInit ==
    /\ historyFile \in {NoFile, ArrayFile(Alternating(<<T("q"), T("m")>>))}
    /\ summaryFile = Missing
    /\ eventsFile = NoFile
    /\ maxHistory = DEFAULT_MAX_HISTORY_MESSAGES
    /\ pc = [s \in Sessions |-> "absent"]
    /\ history = [s \in Sessions |-> <<>>]
    /\ userMessage = [s \in Sessions |-> Empty]
    /\ summaryResult = [s \in Sessions |-> Null]
    /\ messages = [s \in Sessions |-> <<>>]
    /\ turnResult = [s \in Sessions |-> Null]
    /\ cachedIn = Null
    /\ plan = NoWorkPlan(Empty, 0)
    /\ chunks = <<>>
    /\ rollingSummary = Empty
    /\ processedChunks = 0
    /\ used = NoFlags
    /\ requests = <<>>
    /\ outcomes = <<>>
    /\ summaryWrites = 0
    /\ summaryAtStart = summaryFile
    /\ pending = {}
    /\ prevPending = {}
    /\ turns = 0
    /\ chunkLimits = DefaultLimits
    /\ traceState = [current |-> Null]
    /\ toolEvents = <<>>

RaceNext ==
    \E s \in Sessions :
        \/ OneShotBegin(s)
        \/ InteractiveStart(s)
        \/ InteractiveAsk(s)
        \/ \E res \in ChatResults : SessionReply(s, res.reply, res.trace)
        \/ SessionFail(s)
        \/ SessionExit(s)

RaceSpec == RaceInit /\ [][RaceNext]_vars

\* the reply of process s arrives in this step
Completes(s) == InChat(s) /\ turnResult'[s] # Null

\* the number of entries of h that hold the input of process s
EntriesOf(h, s) == Cardinality({k \in 1..Len(h) : h[k].content = SessionInput(s)})

\* C30: the history a process writes when its reply arrives is the history it
\* held when its turn began followed by its own two entries, whatever the
\* stored history is by then; so when the other process completed a turn in
\* between, the stored history loses entries of the other process.
C30_LostUpdate ==
    [][\A s \in Sessions :
          Completes(s) =>
             LET before == readHistory(historyFile)
                 after == readHistory(historyFile')
             IN  /\ Len(after) = Len(history[s]) + 2
                 /\ SubSeq(after, 1, Len(history[s])) = history[s]
                 /\ after[Len(after) - 1] = Msg("user", userMessage[s])
                 /\ s \in pending =>
                       \E o \in Sessions \ {s} :
                           EntriesOf(after, o) < EntriesOf(before, o)]_vars

\* both processes completed a turn; the second reply arrived in a turn during
\* which the first process completed its own, and the stored history is the
\* one the second process wrote, without the entries of the first
C30_Witness ==
    \E a \in Sessions, b \in Sessions :
        /\ a # b
        /\ turnResult[a] # Null
        /\ turnResult[b] # Null
        /\ b \in prevPending
        /\ historyFile = writeHistory(turnResult[b].nextHistory)
        /\ EntriesOf(turnResult[a].nextHistory, a) > 0
        /\ EntriesOf(readHistory(historyFile), a) = 0
        /\ EntriesOf(readHistory(historyFile), b) > 0

-----------------------------------------------------------------------------
(* writeSummaryState followed by readSummaryState, on every state within   *)
(* the bounds. cachedIn is the state handed to writeSummaryState and       *)
(* summaryResult what readSummaryState returns afterwards.                 *)

\* summaries: empty, whitespace only, plain, and with the label once and twice
RoundTripSummaries ==
    {Empty, T(" "), T("S0"), [pre |-> 1, body |-> "S0"], [pre |-> 2, body |-> "S0"]}

RoundTripStates ==
    { [summary |-> t, summarizedUntil |-> u, firstUserMessage |-> f,
       incrementalUpdates |-> k] :
        t \in RoundTripSummaries, u \in 0..(MaxN + 2), f \in {Empty, T("q")},
        k \in {0 - 1, 0, 1, MAX_INCREMENTAL_SUMMARY_UPDATES} }

\* writeSummaryState(cwd, state)
WriteSummary ==
    /\ pc = "idle"
    /\ summaryFile' = writeSummaryState(cachedIn)
    /\ summaryWrites' = summaryWrites + 1
    /\ pc' = "written"
    /\ UNCHANGED <<historyFile, eventsFile, maxHistory, history, userMessage,
                   cachedIn, plan, chunks, rollingSummary, processedChunks, used,
                   summaryResult, messages, requests, outcomes, summaryAtStart,
                   pending, prevPending, turns, turnResult, chunkLimits,
                   traceState, toolEvents>>

\* readSummaryState(cwd) after the write
ReadBack ==
    /\ pc = "written"
    /\ summaryResult' = readSummaryState(summaryFile)
    /\ pc' = "read"
    /\ UNCHANGED <<historyFile, summaryFile, eventsFile, maxHistory, history,
                   userMessage, cachedIn, plan, chunks, rollingSummary,
                   processedChunks, used, messages, requests, outcomes,
                   summaryWrites, summaryAtStart, pending, prevPending, turns,
                   turnResult, chunkLimits, traceState, toolEvents>>

RoundTripInit ==
    /\ historyFile = NoFile
    /\ summaryFile \in {Missing, EmptyObject}
    /\ eventsFile = NoFile
    /\ maxHistory = 1
    /\ pc = "idle"
    /\ history = <<>>
    /\ userMessage = Empty
    /\ cachedIn \in RoundTripStates
    /\ plan = NoWorkPlan(Empty, 0)
    /\ chunks = <<>>
    /\ rollingSummary = Empty
    /\ processedChunks = 0
    /\ used = NoFlags
    /\ summaryResult = Null
    /\ messages = <<>>
    /\ requests = <<>>
    /\ outcomes = <<>>
    /\ summaryWrites = 0
    /\ summaryAtStart = summaryFile
    /\ pending = {}
    /\ prevPending = {}
    /\ turns = 0
    /\ turnResult = Null
    /\ chunkLimits = DefaultLimits
    /\ traceState = [current |-> Null]
    /\ toolEvents = <<>>

RoundTripNext == WriteSummary \/ ReadBack

RoundTripSpec == RoundTripInit /\ [][RoundTripNext]_vars

\* the state written meets the claim's condition
RoundTripCase ==
    /\ pc = "read"
    /\ cachedIn.summarizedUntil >= 1
    /\ cachedIn.incrementalUpdates >= 0

-----------------------------------------------------------------------------
(* The planner and the assembler on the same history.                      *)

\* buildMessages forwards fewer messages than the history holds: besides the
\* system message and the new input, not every message of the history is there
Truncates(h, n) ==
    Len(buildMessages(SYSTEM_PROMPT, h, userMessage, n, Null)) < Len(h) + 2

\* C32: the plan has a middle (middleEnd = history.length - N > 1) exactly
\* when buildMessages leaves messages of the history out (history.length >
\* 1 + N); when the plan is the no-work plan for want of a middle, every
\* message of the history is forwarded.
C32_PlannerAssemblerAgree ==
    Planned =>
       /\ plan.middleEnd = Len(history) - maxHistory
       /\ (plan.middleEnd > MIDDLE_START_INDEX) <=> Truncates(history, maxHistory)
       /\ (plan.middleEnd > MIDDLE_START_INDEX) <=> (Len(history) > 1 + maxHistory)
       /\ (plan.middleEnd <= MIDDLE_START_INDEX) =>
             /\ plan = NoWorkPlan(Anchor(history), plan.middleEnd)
             /\ Len(buildMessages(SYSTEM_PROMPT, history, userMessage, maxHistory, Null))
                   = Len(history) + 2

\* the shortest history with a middle: one message between anchor and window
C32_Witness ==
    /\ Planned
    /\ Len(history) = 2 + maxHistory
    /\ plan.middleEnd = 2
    /\ plan.summarizeFrom = 1
    /\ Truncates(history, maxHistory)

-----------------------------------------------------------------------------
(* The counter of incremental extends over several turns.                  *)

\* the summary record is written in this step
Commits == pc = "summarizing" /\ summaryWrites' = summaryWrites + 1

\* C33: every stored summary state has incrementalUpdates in 0..8; a commit
\* is a full rebuild that stores 0, or an incremental extend of a state whose
\* counter was below 8 that stores the counter plus one; so the commit after a
\* state with counter 8 is a full rebuild, and no more than 8 extends are
\* committed in a row.
C33_DriftBound ==
    /\ [](readSummaryState(summaryFile) # Null =>
             readSummaryState(summaryFile).incrementalUpdates
                 \in 0..MAX_INCREMENTAL_SUMMARY_UPDATES)
    /\ [][Commits =>
            LET old == readSummaryState(summaryFile)
                new == readSummaryState(summaryFile')
                rebuild == /\ new.incrementalUpdates = 0
                           /\ plan.summarizeFrom = MIDDLE_START_INDEX
                           /\ plan.seedSummary = Null
                extend == /\ old # Null
                          /\ old.incrementalUpdates < MAX_INCREMENTAL_SUMMARY_UPDATES
                          /\ new.incrementalUpdates = old.incrementalUpdates + 1
                          /\ plan.summarizeFrom = old.summarizedUntil
                          /\ plan.seedSummary = old.summary
            IN  /\ new # Null
                /\ rebuild \/ extend
                /\ (old # Null
                      /\ old.incrementalUpdates = MAX_INCREMENTAL_SUMMARY_UPDATES)
                   => rebuild]_vars

\* the eighth extend was committed in the first turn; the second turn rebuilt
\* the summary from index 1 and stored the counter 0
C33_Witness ==
    /\ pc = "sending"
    /\ turns = 2
    /\ summaryWrites = 1
    /\ cachedIn # Null
    /\ cachedIn.incrementalUpdates = MAX_INCREMENTAL_SUMMARY_UPDATES
    /\ plan.summarizeFrom = MIDDLE_START_INDEX
    /\ readSummaryState(summaryFile) # Null
    /\ readSummaryState(summaryFile).incrementalUpdates = 0

-----------------------------------------------------------------------------
(* The stored coverage over several turns.                                 *)

\* C34: in every step other than a clear, a stored summary state stays a
\* stored summary state and its summarizedUntil does not decrease: a partial
\* or failed condensation, a failed chat call and an interrupt leave the
\* record as it is, and a commit stores a summarizedUntil at least as large.
C34_CoverageMonotone ==
    [][pc' # "cleared" =>
          LET old == readSummaryState(summaryFile)
              new == readSummaryState(summaryFile')
          IN  /\ old # Null =>
                    /\ new # Null
                    /\ new.summarizedUntil >= old.summarizedUntil
              /\ (Commits /\ old # Null) =>
                    new.summarizedUntil = Len(history) - maxHistory
              /\ ~Commits => summaryFile' = summaryFile]_vars

\* a turn whose condensation stayed partial left the record alone, and the
\* next turn committed a larger summarizedUntil
C34_Witness ==
    /\ pc = "sending"
    /\ turns = 2
    /\ prevPending # {}
    /\ summaryWrites = 1
    /\ cachedIn # Null
    /\ readSummaryState(summaryFile).summarizedUntil > cachedIn.summarizedUntil

-----------------------------------------------------------------------------
(* Planning again right after a commit.                                    *)

\* planSummaryUpdate on the same history and window with the record as stored
Replan == planSummaryUpdate(history, maxHistory, readSummaryState(summaryFile))

-----------------------------------------------------------------------------
(* The order of the forwarded tail.                                        *)

\* t can be had from h by leaving messages out
RECURSIVE IsSubsequence(_, _)
IsSubsequence(t, h) ==
    IF Len(t) = 0 THEN TRUE
    ELSE IF Len(h) = 0 THEN FALSE
    ELSE IF Head(t) = Head(h) THEN IsSubsequence(Tail(t), Tail(h))
    ELSE IsSubsequence(t, Tail(h))

\* C36: on the compaction path the forwarded tail is a subsequence of the
\* history, for every role pattern: the kept messages stand in the order they
\* have in the history.
C36_TailIsSubsequence ==
    (Summarized /\ Len(history) > 1 + maxHistory)
    => IsSubsequence(ForwardedTail, history)

\* C36 where it holds: when the last N messages end with an assistant message
\* or hold none, the forwarded tail is a subsequence of the last N messages.
C36_TailOrderWhenAssistantLast ==
    (Summarized /\ Len(history) > 1 + maxHistory
       /\ (AssistantPositions = {} \/ LastN[Len(LastN)].role = "assistant"))
    => IsSubsequence(ForwardedTail, LastN)

\* a window of an assistant message followed by a user message: the assistant
\* message is forwarded after the user message
C36_Witness ==
    /\ Summarized
    /\ Len(history) > 1 + maxHistory
    /\ Len(LastN) = 2
    /\ LastN[1].role = "assistant"
    /\ LastN[2].role = "user"
    /\ ForwardedTail = <<LastN[2], LastN[1]>>

-----------------------------------------------------------------------------
(* ai/client.ts: createChat.send, and the trace slot of createTracedChat,  *)
(* over the turns of one interactive session. A tool event of the model    *)
(* carries in its field turn the number of the turn whose chat.send call   *)
(* recorded it.                                                            *)

\* mutant: the array of tool events outlives the call
KeptToolEvents(previous) == previous

\* const toolEvents: ChatToolEvent[] = [] at the start of every send
NewToolEvents(previous) == <<>>

\* the tool events one step can bring
StepEvents ==
    { [toolName |-> "write_project_file", ok |-> TRUE],
      [toolName |-> "write_project_file", ok |-> FALSE],
      [toolName |-> "read_project_file", ok |-> TRUE] }

TraceReplies == {T("I've updated the styles."), T("Here is the plan.")}

\* a line typed at the prompt: getCachedOrFreshSummary and buildMessages on a
\* history without a middle, then sendTurnAndPersist up to the await of
\* chat.send, which empties the trace slot, and the start of send
TraceBegin(input) ==
    /\ pc = "prompt"
    /\ turns < MaxTurns
    /\ \E p \in {planSummaryUpdate(history, maxHistory, readSummaryState(summaryFile))} :
          /\ ~Truthy(p.reuseCachedSummary)
          /\ p.summarizeFrom >= p.middleEnd
    /\ userMessage' = input
    /\ summaryResult' = [summary |-> Null, source |-> "none"]
    /\ messages' = buildMessages(SYSTEM_PROMPT, history, input, maxHistory, Null)
    /\ traceState' = [current |-> Null]
    /\ toolEvents' = NewToolEvents(toolEvents)
    /\ turnResult' = Null
    /\ turns' = turns + 1
    /\ pc' = "sending"
    /\ UNCHANGED <<historyFile, summaryFile, eventsFile, maxHistory, history,
                   cachedIn, plan, chunks, rollingSummary, processedChunks, used,
                   requests, outcomes, summaryWrites, summaryAtStart, pending,
                   prevPending, chunkLimits>>

\* onStepFinish: toolEvents.push(...extractToolEvents(stepResult))
TraceStep(event) ==
    /\ pc = "sending"
    /\ Len(toolEvents) < MaxSteps
    /\ toolEvents' = Append(toolEvents,
                            [toolName |-> event.toolName, ok |-> event.ok,
                             turn |-> turns])
    /\ UNCHANGED <<historyFile, summaryFile, eventsFile, maxHistory, pc, history,
                   userMessage, cachedIn, plan, chunks, rollingSummary,
                   processedChunks, used, summaryResult, messages, requests,
                   outcomes, summaryWrites, summaryAtStart, pending, prevPending,
                   turns, turnResult, chunkLimits, traceState>>

\* generateText resolves: onTurnTrace stores the trace, send returns the text,
\* and sendTurnAndPersist guards and persists the turn; the session keeps
\* result.nextHistory and prompts again
TraceResolve(reply) ==
    /\ pc = "sending"
    /\ \E current \in {Trace(toolEvents)} :
       LET guarded == guardAssistantReply(reply, current)
           replyToSave == IF Truthy(guarded.replyToSave) THEN guarded.replyToSave
                          ELSE NO_TEXT_REPLY
           nextHistory == history \o <<Msg("user", userMessage),
                                       Msg("assistant", replyToSave)>>
       IN  /\ traceState' = [current |-> current]
           /\ historyFile' = writeHistory(nextHistory)
           /\ eventsFile' = appendChatEvent(eventsFile,
                  [timestamp |-> turns,
                   trace |-> normalizeTurnTrace(current),
                   hasVerifiedWrite |-> guarded.hasVerifiedWrite,
                   replyWasGuarded |-> guarded.guarded,
                   summarySource |-> summaryResult.source])
           /\ turnResult' = [reply |-> reply,
                             traceState |-> current,
                             guarded |-> guarded,
                             nextHistory |-> nextHistory,
                             trace |-> normalizeTurnTrace(current)]
           /\ history' = nextHistory
    /\ pc' = "prompt"
    /\ UNCHANGED <<summaryFile, maxHistory, userMessage, cachedIn, plan, chunks,
                   rollingSummary, processedChunks, used, summaryResult, messages,
                   requests, outcomes, summaryWrites, summaryAtStart, pending,
                   prevPending, turns, chunkLimits, toolEvents>>

\* generateText rejects: send throws before onTurnTrace, the session reports
\* the error and prompts again
TraceReject ==
    /\ pc = "sending"
    /\ pc' = "prompt"
    /\ UNCHANGED <<historyFile, summaryFile, eventsFile, maxHistory, history,
                   userMessage, cachedIn, plan, chunks, rollingSummary,
                   processedChunks, used, summaryResult, messages, requests,
                   outcomes, summaryWrites, summaryAtStart, pending, prevPending,
                   turns, turnResult, chunkLimits, traceState, toolEvents>>

\* runInteractive at its first prompt
TraceInit ==
    /\ historyFile \in {NoFile, ArrayFile(Alternating(<<T("q"), T("m")>>))}
    /\ summaryFile = Missing
    /\ eventsFile = NoFile
    /\ maxHistory = DEFAULT_MAX_HISTORY_MESSAGES
    /\ summaryAtStart = summaryFile
    /\ pc = "prompt"
    /\ history = readHistory(historyFile)
    /\ userMessage = Empty
    /\ cachedIn = Null
    /\ plan = NoWorkPlan(Empty, 0)
    /\ chunks = <<>>
    /\ rollingSummary = Empty
    /\ processedChunks = 0
    /\ used = NoFlags
    /\ summaryResult = Null
    /\ messages = <<>>
    /\ requests = <<>>
    /\ outcomes = <<>>
    /\ summaryWrites = 0
    /\ pending = {}
    /\ prevPending = {}
    /\ turns = 0
    /\ turnResult = Null
    /\ chunkLimits = DefaultLimits
    /\ traceState = [current |-> Null]
    /\ toolEvents = <<>>

TraceNext ==
    \/ \E input \in UserInputs : TraceBegin(input)
    \/ \E event \in StepEvents : TraceStep(event)
    \/ \E reply \in TraceReplies : TraceResolve(reply)
    \/ TraceReject

TraceSpec == TraceInit /\ [][TraceNext]_vars

\* the trace holds a successful write recorded in the turn at hand
WriteVerifiedThisTurn(trace) ==
    \E k \in 1..Len(trace.toolEvents) :
        /\ trace.toolEvents[k].turn = turns
        /\ trace.toolEvents[k].toolName = "write_project_file"
        /\ trace.toolEvents[k].ok

\* C37: while chat.send is awaited the trace slot is empty; the trace handed
\* to guardAssistantReply holds tool events of the turn's own chat.send call
\* only; hasVerifiedWrite is true exactly when that call recorded a successful
\* write, and a completion claim is guarded exactly when it did not, whatever
\* earlier turns recorded.
C37_TraceFreshness ==
    /\ pc = "sending" => traceState.current = Null
    /\ (pc = "prompt" /\ turnResult # Null) =>
          /\ turnResult.traceState = traceState.current
          /\ \A k \in 1..Len(turnResult.traceState.toolEvents) :
                turnResult.traceState.toolEvents[k].turn = turns
          /\ turnResult.guarded.hasVerifiedWrite
                <=> WriteVerifiedThisTurn(turnResult.traceState)
          /\ turnResult.guarded.guarded
                <=> (/\ turnResult.reply.body \in CompletionClaims
                     /\ ~WriteVerifiedThisTurn(turnResult.traceState))

\* the first turn made a verified write; the second turn claims completion
\* after a read only, and is guarded
C37_Witness ==
    /\ pc = "prompt"
    /\ turns = 2
    /\ turnResult # Null
    /\ Len(readChatEvents(eventsFile)) = 2
    /\ readChatEvents(eventsFile)[1].hasVerifiedWrite
    /\ Len(turnResult.traceState.toolEvents) = 1
    /\ turnResult.traceState.toolEvents[1].toolName = "read_project_file"
    /\ turnResult.reply = T("I've updated the styles.")
    /\ turnResult.guarded.guarded
    /\ ~turnResult.guarded.hasVerifiedWrite


-----------------------------------------------------------------------------
(* The local fallback on chunks of every size the splitter produces.       *)

\* histories long enough for a middle of SUMMARY_CHUNK_MAX_MESSAGES + 1
\* messages behind the widest recency window
LongHistories ==
    { ArrayFile(Alternating(<<T("q")>> \o Repeat(T("m"), t))) :
        t \in 1..(SUMMARY_CHUNK_MAX_MESSAGES + 1 + MaxN) }

FallbackInit ==
    /\ historyFile \in LongHistories
    /\ summaryFile \in {Missing} \cup StoredSummaries
    /\ eventsFile = NoFile
    /\ maxHistory \in 1..MaxN
    /\ summaryAtStart = summaryFile
    /\ TypeDefaults

FallbackNext ==
    \/ \E input \in UserInputs : BeginTurn(input)
    \/ \E p \in ModelOutcomes, r \in ModelOutcomes : SummarizeChunk(p, r)
    \/ \E res \in ChatResults : ChatReply(res.reply, res.trace)
    \/ ChatFail

FallbackSpec == FallbackInit /\ [][FallbackNext]_vars

\* the messages buildFallbackSummary condenses: the last FALLBACK_WINDOW of
\* its input
Condensed(msgs) == SliceLast(msgs, FALLBACK_WINDOW)

\* the prior rolling summary is among the messages condensed for chunk i
PriorSummaryCondensed(i) ==
    \E k \in 1..Len(Condensed(InputOf(i))) :
        /\ IsPriorSummary(Condensed(InputOf(i))[k])
        /\ Condensed(InputOf(i))[k] = InputOf(i)[1]

\* C38: whenever the local fallback gave the summary of a chunk while the
\* rolling summary was not empty, the prior rolling summary is among the
\* messages the fallback condensed, whatever the number of messages of the
\* chunk (1 to SUMMARY_CHUNK_MAX_MESSAGES).
C38_FallbackKeepsPrior ==
    \A j \in 1..Len(outcomes) :
        (outcomes[j].usedFallback /\ RollingBefore(j - 1) # Empty) =>
            /\ Len(chunks[j]) \in 1..SUMMARY_CHUNK_MAX_MESSAGES
            /\ PriorSummaryCondensed(j - 1)

\* what the code does: the prior rolling summary is condensed with every
\* chunk of fewer than FALLBACK_WINDOW messages, and with a chunk of
\* FALLBACK_WINDOW messages it is cut off and the digest holds the chunk alone
C38_FallbackKeepsPriorOfShortChunk ==
    \A j \in 1..Len(outcomes) :
        (outcomes[j].usedFallback /\ RollingBefore(j - 1) # Empty) =>
            /\ Len(chunks[j]) \in 1..SUMMARY_CHUNK_MAX_MESSAGES
            /\ PriorSummaryCondensed(j - 1) <=> Len(chunks[j]) < FALLBACK_WINDOW
            /\ outcomes[j].finalSummary =
                   IF Len(chunks[j]) < FALLBACK_WINDOW
                   THEN T("digest with prior summary") ELSE T("digest")

\* a summary record committed with summarizedUntil = 12 whose summary is the
\* digest of the last ten messages of the middle alone: the stored summary
\* that covered index 1 was dropped
C38_Witness ==
    /\ pc = "sending"
    /\ summaryWrites = 1
    /\ Len(outcomes) = 1
    /\ outcomes[1].usedFallback
    /\ RollingBefore(0) # Empty
    /\ Len(chunks[1]) = SUMMARY_CHUNK_MAX_MESSAGES
    /\ ~PriorSummaryCondensed(0)
    /\ readSummaryState(summaryFile).summary = T("digest")
    /\ readSummaryState(summaryFile).summarizedUntil = SUMMARY_CHUNK_MAX_MESSAGES + 2

-----------------------------------------------------------------------------
(* The summary and the recency window side by side.                        *)

\* the history indices (from 0) a summary stored with summarizedUntil = k
\* stands for
Coverage(k) == 1..(k - 1)

\* the history indices (from 0) of the messages buildMessages takes its tail
\* from
WindowIndices(h, n) ==
    IF HasMiddle(h, n) THEN (Len(h) - n)..(Len(h) - 1)
    ELSE IF FirstMsg(h) # Null THEN 1..(Len(h) - 1)
    ELSE 0..(Len(h) - 1)

\* the summary returned for the turn is the summary of the record as it was
\* read (the source the turn reports is "cache-reuse"), or it was stored in
\* the record during the turn
ReusedOrCommitted ==
    /\ Summarized
    /\ summaryResult.source = "cache-reuse" \/ summaryWrites = 1

\* the planner returned a reuse, or the summary was stored during the turn
PlannedReuseOrCommitted ==
    /\ Summarized
    /\ Truthy(plan.reuseCachedSummary) \/ summaryWrites = 1

\* the record says the summary sent covers 1 .. history.length - N - 1, the
\* tail is taken from the last N messages, and every index of the history is
\* exactly one of: index 0 of the anchor, covered by the summary, in the window
NoGapNoOverlap ==
    \E rec \in {readSummaryState(summaryFile)} :
        /\ rec # Null
        /\ rec.summary = summaryResult.summary
        /\ messages = buildMessages(SYSTEM_PROMPT, history, userMessage,
                                    maxHistory, rec.summary)
        /\ Coverage(rec.summarizedUntil) = 1..(Len(history) - maxHistory - 1)
        /\ RawTail(history, maxHistory)
               = SubSeq(history, rec.summarizedUntil + 1, Len(history))
        /\ FirstMsg(history) = history[1]
        /\ \A i \in 0..(Len(history) - 1) :
               Cardinality({ part \in {"anchor", "summary", "window"} :
                   \/ part = "anchor" /\ i = 0
                   \/ part = "summary" /\ i \in Coverage(rec.summarizedUntil)
                   \/ part = "window" /\ i \in WindowIndices(history, maxHistory)
                 }) = 1

\* C39: on a turn whose summary was reused from the record, or stored in the
\* record during the turn, the record says the summary that is sent covers
\* the indices 1 .. history.length - N - 1 and the tail is taken from the
\* last N messages, so that every index of the history is exactly one of:
\* index 0 of the anchor, an index the summary covers, an index of the
\* window.
C39_NoGapNoOverlap == ReusedOrCommitted => NoGapNoOverlap

\* what the code does: the partition holds on the turns for which the planner
\* returned a reuse and on the turns that stored the summary; a turn whose
\* extension stopped at its first chunk sends the summary of the record
\* unchanged, reports "cache-reuse", and leaves the indices from
\* summarizedUntil to history.length - N - 1 to neither side
C39_NoGapNoOverlapOfPlannedReuse == PlannedReuseOrCommitted => NoGapNoOverlap

\* an extension that stopped at its first chunk: the stored summary is sent
\* under "cache-reuse" and ten indices are neither covered nor in the window
C39_GapReached ==
    /\ ReusedOrCommitted
    /\ ~Truthy(plan.reuseCachedSummary)
    /\ summaryWrites = 0
    /\ processedChunks = 0
    /\ summaryResult.summary = cachedIn.summary
    /\ cachedIn.summarizedUntil < Len(history) - maxHistory

\* the second turn reuses the summary the first turn stored for the same
\* history, the reply of the first turn having failed
C39_Witness ==
    /\ PlannedReuseOrCommitted
    /\ turns = 2
    /\ summaryResult.source = "cache-reuse"
    /\ cachedIn # Null
    /\ cachedIn.summarizedUntil > 2
    /\ Len(history) = cachedIn.summarizedUntil + maxHistory

-----------------------------------------------------------------------------
(* The summary record after the history record was lost.                   *)

\* the history of the conversation the stored summary record comes from
FirstConversations ==
    { ArrayFile(Alternating(<<T("q")>> \o Repeat(T("m"), t))) : t \in 1..MaxLen }

\* a history record that readHistory reads as empty: the file is missing, or
\* it holds no entry that readHistory keeps
LostHistoryFiles ==
    {NoFile, ArrayFile(<<[role |-> "system", content |-> T("m")]>>)}

\* the history record one completed turn after the loss
HistoriesAfterLoss ==
    { writeHistory(<<Msg("user", input), Msg("assistant", reply)>>) :
        input \in UserInputs,
        reply \in {NO_TEXT_REPLY, T("I've updated the styles.")} }

\* the messages the stored summary records were produced from: index 1 of the
\* first conversation
ProducedFrom == <<Msg("assistant", T("m"))>>

\* the history file is deleted or damaged between two turns; the summary file
\* is left as it is
LoseHistory ==
    /\ pc \in {"idle", "cleared"}
    /\ readHistory(historyFile) # <<>>
    /\ historyFile' \in LostHistoryFiles
    /\ UNCHANGED <<summaryFile, eventsFile, maxHistory, pc, history, userMessage,
                   cachedIn, plan, chunks, rollingSummary, processedChunks, used,
                   summaryResult, messages, requests, outcomes, summaryWrites,
                   summaryAtStart, pending, prevPending, turns, turnResult,
                   chunkLimits, traceState, toolEvents>>

LossInit ==
    /\ historyFile \in FirstConversations \cup HistoriesAfterLoss
    /\ summaryFile \in StoredSummaries
    /\ eventsFile = NoFile
    /\ maxHistory \in 1..MaxN
    /\ summaryAtStart = summaryFile
    /\ TypeDefaults

LossNext ==
    \/ \E input \in UserInputs : BeginTurn(input)
    \/ \E p \in ModelOutcomes, r \in ModelOutcomes : SummarizeChunk(p, r)
    \/ \E res \in ChatResults : ChatReply(res.reply, res.trace)
    \/ ChatFail
    \/ Clear
    \/ LoseHistory

LossSpec == LossInit /\ [][LossNext]_vars

\* the planner returned a reuse or an incremental extend of the record read
UsesCached ==
    /\ Planned
    /\ cachedIn # Null
    /\ \/ Truthy(plan.reuseCachedSummary)
       \/ Truthy(plan.seedSummary) /\ plan.summarizeFrom = cachedIn.summarizedUntil

\* the record read is one of the stored records, which no turn has rewritten
ReadsStoredRecord ==
    \E file \in StoredSummaries : cachedIn = readSummaryState(file)

\* C40: whenever the planner returns a reuse or an incremental extend of a
\* stored summary record, the messages of the history at the indices
\* 1 .. summarizedUntil - 1 are the messages the summary of the record was
\* produced from, also after the history record was lost and the conversation
\* started again.
C40_CachedSummaryMatchesHistory ==
    (UsesCached /\ ReadsStoredRecord) =>
        Slice(history, MIDDLE_START_INDEX, cachedIn.summarizedUntil) = ProducedFrom

\* what the code checks: the anchor text of the record equals the first user
\* message of the history and summarizedUntil lies within 1 .. middleEnd
C40_CachedSummaryMatchesAnchor ==
    UsesCached =>
        /\ cachedIn.firstUserMessage = Anchor(history)
        /\ cachedIn.summarizedUntil \in MIDDLE_START_INDEX..(Len(history) - maxHistory)

\* the record of the lost conversation is extended with the messages of the
\* conversation that replaced it
C40_StaleSeedReached ==
    /\ UsesCached
    /\ ReadsStoredRecord
    /\ Truthy(plan.seedSummary)
    /\ ~Truthy(plan.reuseCachedSummary)
    /\ Slice(history, MIDDLE_START_INDEX, cachedIn.summarizedUntil) # ProducedFrom

=============================================================================
